---- MODULE Spec2Model ----
(***************************************************************************)
(* SoundMind v1: the stage-contract validator (soundmind/contracts.py),    *)
(* the pipeline orchestrator (soundmind/pipeline.py) and the six stage     *)
(* adapters run(ctx) it sequences (soundmind/stages/*.py).                 *)
(*                                                                         *)
(* Strings whose prefix the code inspects (artifact roles and MIME types)  *)
(* are sequences of characters, so that str.startswith and the f-string    *)
(* that formats a type error are computed, not assumed.  Timestamps        *)
(* (now_iso) are left out of the status records of the adapters, no        *)
(* formula on them reads a time; the status records of the signal path     *)
(* (SignalStatus) carry the job id and the time of the run.                *)
(* The adapters run(ctx) use neither ArtifactRef nor                       *)
(* write_stage_status_v2, which the stage modules import from              *)
(* stages/base.py: importing a stage module is taken to succeed.  An       *)
(* unexpected failure of a stage (fault) is an I/O or library error raised *)
(* by its reads, writes or processing, before it has written anything.     *)
(***************************************************************************)
EXTENDS Integers, Sequences, FiniteSets, TLC

VARIABLES
    \* ---- the validator's call: StageValidator.validate(contract, available)
    v_contract,       \* the StageContract passed in
    v_available,      \* the list of ArtifactRef passed in
    v_result,         \* NoResult, or the outcome of the call
    \* ---- one run of run_pipeline(ctx) on a fresh workspace
    wav,              \* input/original.wav as the stages will find it
    fault,            \* the stage whose read/processing raises unexpectedly
    idx,              \* position of the for loop in STAGE_ORDER (1-based)
    pc,               \* position of the orchestrator / running stage
    running,          \* stages whose run(ctx) has been entered and not left
    started,          \* history: stages whose run(ctx) was called, in order
    validated,        \* history: stages validated by StageValidator
    signalled,        \* history: stages that raised StageFailure, in order
    stage_status,     \* <stage>/status.json per stage directory
    files,            \* artifact files written into the workspace
    job_status,       \* <job_dir>/status.json
    pending,          \* exception the running stage is about to raise
    exc,              \* exception in flight between stage and orchestrator
    failed_stage,     \* run_pipeline local
    pipeline_errors,  \* run_pipeline local
    result,           \* how run_pipeline ended
    \* ---- concurrent `soundmind run` invocations with one job id and jobs root
    cli_pc,           \* per invocation: its position in cmd_run / create_full_workspace
    cli_i,            \* per invocation: index of the loop over STAGE_NAMES
    cli_exit,         \* per invocation: how it ended
    fs_root,          \* whether the jobs root directory exists
    fs_tree,          \* entries of <jobs_root>/<job_id>, each with its writer
    fs_before,        \* history: fs_tree before the invocations started
    \* ---- the signal path: one recording through separation, sqi, diarization, events
    d_pc,             \* the stage that runs next
    d_input,          \* samples of input/original.wav (16-bit codes)
    d_stems,          \* separation/stems/speech.wav and residual.wav
    d_sqi,            \* sqi/sqi.json
    d_diar,           \* diarization/diarization.json, per_speaker/, the artifact list
    d_events,         \* events/events.json
    d_candidates,     \* history: the candidates the impulse detector formed
    d_run,            \* the job id of the run and the time now_iso gives during it
    d_earlier,        \* the workspaces earlier runs left under the jobs root
    \* ---- one call of _detect_impulses_non_speech_only, loop iteration by iteration
    scan              \* its arguments, its locals and the frames it has read

validator_vars == <<v_contract, v_available, v_result>>

pipeline_vars == <<wav, fault, idx, pc, running, started, validated, signalled, stage_status, files, job_status, pending, exc, failed_stage, pipeline_errors, result>>

cli_vars == <<cli_pc, cli_i, cli_exit, fs_root, fs_tree, fs_before>>

dsp_vars == <<d_pc, d_input, d_stems, d_sqi, d_diar, d_events, d_candidates, d_run, d_earlier, scan>>

vars == <<v_contract, v_available, v_result, wav, fault, idx, pc, running, started, validated, signalled, stage_status, files, job_status, pending, exc, failed_stage, pipeline_errors, result, cli_pc, cli_i, cli_exit, fs_root, fs_tree, fs_before, d_pc, d_input, d_stems, d_sqi, d_diar, d_events, d_candidates, d_run, d_earlier, scan>>

(***************************************************************************)
(* Bounds                                                                  *)
(***************************************************************************)
\* longest list of available artifacts handed to validate
MaxAvailable == 2

\* largest number of samples in the input recording
MaxSamples == 2

\* largest number of diarization segments the input gives rise to
MaxSegments == 1

\* longest artifact list of a status record that rollup.run finds
MaxRecorded == 1

\* number of `soundmind run` invocations racing for one job id
MaxRuns == 2

(***************************************************************************)
(* Strings as character sequences                                          *)
(***************************************************************************)
AudioPrefix == <<"a","u","d","i","o","/">>

MetadataPrefix == <<"m","e","t","a","d","a","t","a","/">>

ApplicationJson == <<"a","p","p","l","i","c","a","t","i","o","n","/","j","s","o","n">>

AudioWav == <<"a","u","d","i","o","/","w","a","v">>

TypeAudioBare == <<"a","u","d","i","o">>

RoleAudioOriginal == <<"a","u","d","i","o","/","o","r","i","g","i","n","a","l">>

RoleAudioSpeech == <<"a","u","d","i","o","/","s","p","e","e","c","h">>

RoleAudioResidual == <<"a","u","d","i","o","/","r","e","s","i","d","u","a","l">>

RoleMetadataSqi == <<"m","e","t","a","d","a","t","a","/","s","q","i">>

RoleMetadataDiarization == <<"m","e","t","a","d","a","t","a","/","d","i","a","r","i","z","a","t","i","o","n">>

RoleMetadataEvents == <<"m","e","t","a","d","a","t","a","/","e","v","e","n","t","s">>

RoleAudioDiarizedSpeaker == <<"a","u","d","i","o","/","d","i","a","r","i","z","e","d","_","s","p","e","a","k","e","r">>

RoleOther == <<"r","e","p","o","r","t","/","x">>

MsgRole == <<"R","o","l","e"," ","'">>

MsgHasType == <<"'"," ","h","a","s"," ","t","y","p","e"," ","'">>

MsgExpectedAudio == <<"'",","," ","e","x","p","e","c","t","e","d"," ","t","y","p","e"," ","s","t","a","r","t","i","n","g"," ","w","i","t","h"," ","'","a","u","d","i","o","/","'">>

MsgExpectedJson == <<"'",","," ","e","x","p","e","c","t","e","d"," ","'","a","p","p","l","i","c","a","t","i","o","n","/","j","s","o","n","'">>

\* str.startswith
StartsWith(s, prefix) ==
    /\ Len(s) >= Len(prefix)
    /\ SubSeq(s, 1, Len(prefix)) = prefix

\* the Python test `sub in s` on strings
Contains(s, sub) ==
    \E k \in 1..(Len(s) - Len(sub) + 1) : SubSeq(s, k, k + Len(sub) - 1) = sub

(***************************************************************************)
(* ArtifactRef and StageContract                                           *)
(***************************************************************************)
build_artifact_ref(path, artifact_type, role, description) ==
    [path |-> path, type |-> artifact_type, role |-> role, description |-> description]

StageContract(name, requires, produces, version) ==
    [name |-> name, requires |-> requires, produces |-> produces, version |-> version]

(***************************************************************************)
(* StageValidator.validate                                                 *)
(***************************************************************************)
NoResult == [called |-> FALSE]

\* available_roles = {a.role for a in available_artifacts}
AvailableRoles(available_artifacts) ==
    {available_artifacts[i].role : i \in DOMAIN available_artifacts}

MissingRolesKeepsAll(requires, available_roles) == requires

\* missing_roles = contract.requires - available_roles
MissingRoles(requires, available_roles) == requires \ available_roles

RoleTypeErrorAudioOnly(role, artifact_type) ==
    IF StartsWith(role, AudioPrefix) /\ ~StartsWith(artifact_type, AudioPrefix)
    THEN <<MsgRole \o role \o MsgHasType \o artifact_type \o MsgExpectedAudio>>
    ELSE <<>>

\* the body of the loop over available artifacts: the errors one artifact adds
RoleTypeError(role, artifact_type) ==
    IF StartsWith(role, AudioPrefix)
    THEN IF ~StartsWith(artifact_type, AudioPrefix)
         THEN <<MsgRole \o role \o MsgHasType \o artifact_type \o MsgExpectedAudio>>
         ELSE <<>>
    ELSE IF StartsWith(role, MetadataPrefix)
         THEN IF artifact_type # ApplicationJson
              THEN <<MsgRole \o role \o MsgHasType \o artifact_type \o MsgExpectedJson>>
              ELSE <<>>
         ELSE <<>>

RECURSIVE TypeErrors(_)
\* type_errors after the loop `for artifact in available_artifacts`
TypeErrors(available_artifacts) ==
    IF available_artifacts = <<>>
    THEN <<>>
    ELSE RoleTypeError(Head(available_artifacts).role, Head(available_artifacts).type)
         \o TypeErrors(Tail(available_artifacts))

ValidationFailsOnMissingOnly(missing_roles, type_errors) == missing_roles # {}

\* if missing_roles or type_errors: raise
ValidationFails(missing_roles, type_errors) ==
    missing_roles # {} \/ type_errors # <<>>

\* ValidationError(stage, missing_roles, available_roles, type_errors)
ValidationError(stage, missing_roles, available_roles, type_errors) ==
    [called |-> TRUE, raised |-> TRUE, stage |-> stage, missing_roles |-> missing_roles,
     available_roles |-> available_roles, type_errors |-> type_errors]

Returned == [called |-> TRUE, raised |-> FALSE]

validate(contract, available_artifacts) ==
    LET available_roles == AvailableRoles(available_artifacts)
        missing_roles == MissingRoles(contract.requires, available_roles)
        type_errors == TypeErrors(available_artifacts)
    IN  IF ValidationFails(missing_roles, type_errors)
        THEN ValidationError(contract.name, missing_roles, available_roles, type_errors)
        ELSE Returned

(***************************************************************************)
(* The pipeline: records on disk and exceptions                            *)
(***************************************************************************)
\* STAGE_ORDER (names; the module paths are soundmind.stages.<name>)
STAGE_ORDER == <<"ingest", "separation", "sqi", "diarization", "events", "rollup">>

\* EXPECTED_STAGES of the rollup stage
EXPECTED_STAGES == <<"ingest", "separation", "sqi", "diarization", "events">>

StageNames == {STAGE_ORDER[i] : i \in DOMAIN STAGE_ORDER}

\* Python None where the code stores a name
Null == "null"

\* no status.json in a stage directory
NoStatus == [exists |-> FALSE]

NoExc == [kind |-> "none"]

\* StageFailure(stage, errors)
StageFailure(stage, errors) == [kind |-> "StageFailure", stage |-> stage, errors |-> errors]

\* any exception that is not a StageFailure, raised inside stage `stage`
RawException(stage) == [kind |-> "Exception", stage |-> stage]

build_error(code, message, stage, detail) ==
    [code |-> code, message |-> message, stage |-> stage, detail |-> detail]

\* the status document write_stage_status writes; None defaults become []
write_stage_status(stage, success, artifacts, errors) ==
    [exists |-> TRUE, stage |-> stage, version |-> "v1", success |-> success,
     artifacts |-> artifacts, errors |-> errors]

StatusExists(dir, name) == dir[name] # NoStatus

\* the job-level status.json cmd_run writes before calling run_pipeline
InitializedJobStatus ==
    [job_id |-> "job", version |-> "v1", state |-> "initialized", success |-> Null,
     stages |-> <<>>, errors |-> <<>>]

StillRunning == [state |-> "running"]

ReturnedValue(value) == [state |-> "returned", value |-> value]

RaisedOut == [state |-> "raised"]

(***************************************************************************)
(* Inputs of a run                                                         *)
(***************************************************************************)
\* what input/original.wav holds: whether it exists, whether read_wav can
\* read it, its number of samples, whether every sample is finite, and the
\* number of diarization segments (non-zero runs >= 0.20 s of the speech
\* stem) it gives rise to.
InputFiles ==
    {[exists |-> FALSE, readable |-> FALSE, num_samples |-> 0, finite |-> TRUE, segments |-> 0],
     [exists |-> TRUE, readable |-> FALSE, num_samples |-> 0, finite |-> TRUE, segments |-> 0],
     [exists |-> TRUE, readable |-> TRUE, num_samples |-> 0, finite |-> TRUE, segments |-> 0]}
    \cup {[exists |-> TRUE, readable |-> TRUE, num_samples |-> n, finite |-> FALSE, segments |-> 0] :
            n \in 1..MaxSamples}
    \cup {[exists |-> TRUE, readable |-> TRUE, num_samples |-> n, finite |-> TRUE, segments |-> k] :
            n \in 1..MaxSamples, k \in 0..MaxSegments}

\* the stages with no handler of their own around reading and processing
FaultStages == {"separation", "sqi", "diarization", "events"}

(***************************************************************************)
(* Orchestrator: run_pipeline                                              *)
(***************************************************************************)
Runs == 1..MaxRuns

\* no `soundmind run` invocation is being observed
CliIdle ==
    /\ cli_pc = [p \in Runs |-> "idle"]
    /\ cli_i = [p \in Runs |-> 1]
    /\ cli_exit = [p \in Runs |-> "none"]
    /\ fs_root = TRUE
    /\ fs_tree = {}
    /\ fs_before = {}

\* no recording is on the signal path
DspIdle ==
    /\ d_pc = "idle"
    /\ d_input = <<>>
    /\ d_stems = [written |-> FALSE]
    /\ d_sqi = [written |-> FALSE]
    /\ d_diar = [written |-> FALSE]
    /\ d_events = [written |-> FALSE]
    /\ d_candidates = <<>>
    /\ d_run = [job_id |-> <<>>, now |-> 0]
    /\ d_earlier = <<>>
    /\ scan = [pc |-> "idle"]

ValidatorIdle ==
    /\ v_contract = StageContract("none", {}, {}, "0")
    /\ v_available = <<>>
    /\ v_result = NoResult

\* entry of run_pipeline on the workspace cmd_run has just created
Init ==
    /\ ValidatorIdle
    /\ CliIdle
    /\ DspIdle
    /\ wav \in InputFiles
    /\ fault \in FaultStages \cup {"none"}
    /\ idx = 1
    /\ pc = "loop"
    /\ running = {}
    /\ started = <<>>
    /\ validated = {}
    /\ signalled = <<>>
    /\ stage_status = [s \in StageNames |-> NoStatus]
    /\ files = {}
    /\ job_status = InitializedJobStatus
    /\ pending = NoExc
    /\ exc = NoExc
    /\ failed_stage = Null
    /\ pipeline_errors = <<>>
    /\ result = StillRunning

CurrentStage == STAGE_ORDER[idx]

\* for stage_name, module_path in STAGE_ORDER: import the module, call run(ctx)
CallStage ==
    /\ pc = "loop"
    /\ idx <= Len(STAGE_ORDER)
    /\ started' = Append(started, CurrentStage)
    /\ running' = running \cup {CurrentStage}
    /\ pc' = "stage"
    /\ UNCHANGED <<wav, fault, idx, validated, signalled, stage_status, files, job_status, pending, exc, failed_stage, pipeline_errors, result>>
    /\ UNCHANGED validator_vars
    /\ UNCHANGED cli_vars
    /\ UNCHANGED dsp_vars

\* the for loop is exhausted
LoopExit ==
    /\ pc = "loop"
    /\ idx > Len(STAGE_ORDER)
    /\ pc' = "finalize"
    /\ UNCHANGED <<wav, fault, idx, running, started, validated, signalled, stage_status, files, job_status, pending, exc, failed_stage, pipeline_errors, result>>
    /\ UNCHANGED validator_vars
    /\ UNCHANGED cli_vars
    /\ UNCHANGED dsp_vars

NextIndexRepeats(i) == i

\* the for loop moves to the next entry of STAGE_ORDER
NextIndex(i) == i + 1

\* module.run(ctx) returned normally
StageReturn ==
    /\ pc = "returned"
    /\ running' = running \ {CurrentStage}
    /\ idx' = NextIndex(idx)
    /\ pc' = "loop"
    /\ UNCHANGED <<wav, fault, started, validated, signalled, stage_status, files, job_status, pending, exc, failed_stage, pipeline_errors, result>>
    /\ UNCHANGED validator_vars
    /\ UNCHANGED cli_vars
    /\ UNCHANGED dsp_vars

\* the running stage executes its raise statement
StageRaise ==
    /\ pc = "raise"
    /\ exc' = pending
    /\ pending' = NoExc
    /\ running' = running \ {CurrentStage}
    /\ signalled' = IF pending.kind = "StageFailure" THEN Append(signalled, pending.stage) ELSE signalled
    /\ pc' = "handler"
    /\ UNCHANGED <<wav, fault, idx, started, validated, stage_status, files, job_status, failed_stage, pipeline_errors, result>>
    /\ UNCHANGED validator_vars
    /\ UNCHANGED cli_vars
    /\ UNCHANGED dsp_vars

AfterCatchContinues == "returned"

\* `break` at the end of the except StageFailure clause
AfterCatch == "finalize"

\* except StageFailure as e: failed_stage = e.stage; pipeline_errors = e.errors; break
CatchStageFailure ==
    /\ pc = "handler"
    /\ exc.kind = "StageFailure"
    /\ failed_stage' = exc.stage
    /\ pipeline_errors' = exc.errors
    /\ exc' = NoExc
    /\ pc' = AfterCatch
    /\ UNCHANGED <<wav, fault, idx, running, started, validated, signalled, stage_status, files, job_status, pending, result>>
    /\ UNCHANGED validator_vars
    /\ UNCHANGED cli_vars
    /\ UNCHANGED dsp_vars

\* any other exception matches no except clause and leaves run_pipeline
PropagateException ==
    /\ pc = "handler"
    /\ exc.kind = "Exception"
    /\ result' = RaisedOut
    /\ pc' = "crashed"
    /\ UNCHANGED <<wav, fault, idx, running, started, validated, signalled, stage_status, files, job_status, pending, exc, failed_stage, pipeline_errors>>
    /\ UNCHANGED validator_vars
    /\ UNCHANGED cli_vars
    /\ UNCHANGED dsp_vars

JobSuccessAlways(failed) == TRUE

\* success = failed_stage is None
JobSuccess(failed) == failed = Null

\* aggregated_artifacts: rollup's artifacts if rollup/status.json exists, else []
RollupArtifacts(dir) ==
    IF StatusExists(dir, "rollup") THEN dir["rollup"].artifacts ELSE <<>>

\* "stages": {name: f"{name}/status.json" for name, _ in STAGE_ORDER if status.json exists}
StagesMap(dir) ==
    [name \in {n \in StageNames : StatusExists(dir, n)} |-> <<name, "/status.json">>]

\* the job-level status document run_pipeline builds
BuildJobStatus(dir, failed, errors) ==
    [job_id |-> "job", version |-> "v1", success |-> JobSuccess(failed),
     failed_stage |-> failed, stages |-> StagesMap(dir),
     artifacts |-> RollupArtifacts(dir), errors |-> errors]

\* the tail of run_pipeline: build and write the job status, return success
Finalize ==
    /\ pc = "finalize"
    /\ job_status' = BuildJobStatus(stage_status, failed_stage, pipeline_errors)
    /\ result' = ReturnedValue(JobSuccess(failed_stage))
    /\ pc' = "done"
    /\ UNCHANGED <<wav, fault, idx, running, started, validated, signalled, stage_status, files, pending, exc, failed_stage, pipeline_errors>>
    /\ UNCHANGED validator_vars
    /\ UNCHANGED cli_vars
    /\ UNCHANGED dsp_vars

(***************************************************************************)
(* Stage adapters run(ctx)                                                 *)
(***************************************************************************)
\* CONTRACT of each stage module
CONTRACT_ingest == StageContract("ingest", {}, {RoleAudioOriginal}, "1.0.0")

CONTRACT_separation ==
    StageContract("separation", {RoleAudioOriginal}, {RoleAudioSpeech, RoleAudioResidual}, "1.0.0")

CONTRACT_sqi == StageContract("sqi", {RoleAudioSpeech}, {RoleMetadataSqi}, "1.0.0")

CONTRACT_diarization ==
    StageContract("diarization", {RoleAudioSpeech}, {RoleMetadataDiarization, RoleAudioDiarizedSpeaker}, "1.0.0")

CONTRACT_events == StageContract("events", {RoleAudioResidual}, {RoleMetadataEvents}, "1.0.0")

CONTRACT_rollup ==
    StageContract("rollup",
                  {RoleAudioOriginal, RoleAudioSpeech, RoleAudioResidual,
                   RoleMetadataSqi, RoleMetadataDiarization, RoleMetadataEvents},
                  {}, "1.0.0")

NoError == [code |-> "none"]

IngestCheckSkipsFinite(w) ==
    IF ~w.exists
    THEN build_error("INGEST_INPUT_MISSING", "original.wav not found in input directory", "ingest", "expected_path")
    ELSE IF ~w.readable
    THEN build_error("INGEST_READ_ERROR", "Failed to read audio file", "ingest", "path, error")
    ELSE IF w.num_samples = 0
    THEN build_error("INGEST_EMPTY_AUDIO", "Audio file is empty", "ingest", "path")
    ELSE NoError

\* the checks of ingest.run, in the order the code makes them
IngestCheck(w) ==
    IF ~w.exists
    THEN build_error("INGEST_INPUT_MISSING", "original.wav not found in input directory", "ingest", "expected_path")
    ELSE IF ~w.readable
    THEN build_error("INGEST_READ_ERROR", "Failed to read audio file", "ingest", "path, error")
    ELSE IF w.num_samples = 0
    THEN build_error("INGEST_EMPTY_AUDIO", "Audio file is empty", "ingest", "path")
    ELSE IF ~w.finite
    THEN build_error("INGEST_INVALID_AUDIO", "Audio file contains non-finite values", "ingest", "path")
    ELSE NoError

FailedStatusDropsErrors(stage, errors) == write_stage_status(stage, FALSE, <<>>, <<>>)

\* write_stage_status(stage_dir, job_id, stage, False, started_at, errors=[error])
FailedStatus(stage, errors) == write_stage_status(stage, FALSE, <<>>, errors)

\* write_stage_status(stage_dir, job_id, stage, True, started_at, artifacts=artifacts)
SucceededStatus(stage, artifacts) == write_stage_status(stage, TRUE, artifacts, <<>>)

IngestArtifacts ==
    <<build_artifact_ref("input/original.wav", AudioWav, RoleAudioOriginal, "Canonical input audio file")>>

\* Stage A: soundmind.stages.ingest.run, up to its return or its raise
IngestRun ==
    /\ pc = "stage"
    /\ CurrentStage = "ingest"
    /\ LET error == IngestCheck(wav)
       IN  IF error # NoError
           THEN /\ stage_status' = [stage_status EXCEPT !["ingest"] = FailedStatus("ingest", <<error>>)]
                /\ pending' = StageFailure("ingest", <<error>>)
                /\ pc' = "raise"
           ELSE /\ stage_status' = [stage_status EXCEPT !["ingest"] = SucceededStatus("ingest", IngestArtifacts)]
                /\ pending' = pending
                /\ pc' = "returned"
    /\ UNCHANGED <<wav, fault, idx, running, started, validated, signalled, files, job_status, exc, failed_stage, pipeline_errors, result>>
    /\ UNCHANGED validator_vars
    /\ UNCHANGED cli_vars
    /\ UNCHANGED dsp_vars

SeparationArtifacts ==
    <<build_artifact_ref("separation/stems/speech.wav", AudioWav, RoleAudioSpeech, "Speech stem (energy-based RMS mask)"),
      build_artifact_ref("separation/stems/residual.wav", AudioWav, RoleAudioResidual, "Residual stem (input - speech)")>>

\* Stage B: soundmind.stages.separation.run; no try/except in the adapter
SeparationRun ==
    /\ pc = "stage"
    /\ CurrentStage = "separation"
    /\ IF fault = "separation"
       THEN /\ pending' = RawException("separation")
            /\ pc' = "raise"
            /\ UNCHANGED <<stage_status, files>>
       ELSE /\ files' = files \cup {"separation/stems/speech.wav", "separation/stems/residual.wav"}
            /\ stage_status' = [stage_status EXCEPT !["separation"] = SucceededStatus("separation", SeparationArtifacts)]
            /\ pending' = pending
            /\ pc' = "returned"
    /\ UNCHANGED <<wav, fault, idx, running, started, validated, signalled, job_status, exc, failed_stage, pipeline_errors, result>>
    /\ UNCHANGED validator_vars
    /\ UNCHANGED cli_vars
    /\ UNCHANGED dsp_vars

SqiArtifacts ==
    <<build_artifact_ref("sqi/sqi.json", ApplicationJson, RoleMetadataSqi, "Signal quality indicators (7 metrics)")>>

\* Stage C: soundmind.stages.sqi.run; no try/except in the adapter
SqiRun ==
    /\ pc = "stage"
    /\ CurrentStage = "sqi"
    /\ IF fault = "sqi"
       THEN /\ pending' = RawException("sqi")
            /\ pc' = "raise"
            /\ UNCHANGED <<stage_status, files>>
       ELSE /\ files' = files \cup {"sqi/sqi.json"}
            /\ stage_status' = [stage_status EXCEPT !["sqi"] = SucceededStatus("sqi", SqiArtifacts)]
            /\ pending' = pending
            /\ pc' = "returned"
    /\ UNCHANGED <<wav, fault, idx, running, started, validated, signalled, job_status, exc, failed_stage, pipeline_errors, result>>
    /\ UNCHANGED validator_vars
    /\ UNCHANGED cli_vars
    /\ UNCHANGED dsp_vars

DiarizationArtifactsOfSpeechOnly(segments) ==
    IF segments > 0
    THEN <<build_artifact_ref("diarization/diarization.json", ApplicationJson, RoleMetadataDiarization, "Energy-based speaker segmentation (single pseudo-speaker)"),
           build_artifact_ref("diarization/per_speaker/SPEAKER_00.wav", AudioWav, RoleAudioDiarizedSpeaker, "Concatenated speech for SPEAKER_00")>>
    ELSE <<>>

\* artifacts of diarization.run: the JSON always, the speaker WAV if segments
DiarizationArtifacts(segments) ==
    <<build_artifact_ref("diarization/diarization.json", ApplicationJson, RoleMetadataDiarization, "Energy-based speaker segmentation (single pseudo-speaker)")>>
    \o (IF segments > 0
        THEN <<build_artifact_ref("diarization/per_speaker/SPEAKER_00.wav", AudioWav, RoleAudioDiarizedSpeaker, "Concatenated speech for SPEAKER_00")>>
        ELSE <<>>)

\* Stage D: soundmind.stages.diarization.run; no try/except in the adapter
DiarizationRun ==
    /\ pc = "stage"
    /\ CurrentStage = "diarization"
    /\ IF fault = "diarization"
       THEN /\ pending' = RawException("diarization")
            /\ pc' = "raise"
            /\ UNCHANGED <<stage_status, files>>
       ELSE /\ files' = files \cup {"diarization/diarization.json"}
                        \cup (IF wav.segments > 0 THEN {"diarization/per_speaker/SPEAKER_00.wav"} ELSE {})
            /\ stage_status' = [stage_status EXCEPT !["diarization"] = SucceededStatus("diarization", DiarizationArtifacts(wav.segments))]
            /\ pending' = pending
            /\ pc' = "returned"
    /\ UNCHANGED <<wav, fault, idx, running, started, validated, signalled, job_status, exc, failed_stage, pipeline_errors, result>>
    /\ UNCHANGED validator_vars
    /\ UNCHANGED cli_vars
    /\ UNCHANGED dsp_vars

EventsArtifacts ==
    <<build_artifact_ref("events/events.json", ApplicationJson, RoleMetadataEvents, "Impulse events detected in non-speech regions")>>

\* Stage E: soundmind.stages.events.run; no try/except in the adapter
EventsRun ==
    /\ pc = "stage"
    /\ CurrentStage = "events"
    /\ IF fault = "events"
       THEN /\ pending' = RawException("events")
            /\ pc' = "raise"
            /\ UNCHANGED <<stage_status, files>>
       ELSE /\ files' = files \cup {"events/events.json"}
            /\ stage_status' = [stage_status EXCEPT !["events"] = SucceededStatus("events", EventsArtifacts)]
            /\ pending' = pending
            /\ pc' = "returned"
    /\ UNCHANGED <<wav, fault, idx, running, started, validated, signalled, job_status, exc, failed_stage, pipeline_errors, result>>
    /\ UNCHANGED validator_vars
    /\ UNCHANGED cli_vars
    /\ UNCHANGED dsp_vars

\* stage_statuses: the status documents rollup finds, keyed by stage name
ReadStageStatuses(dir) ==
    [s \in {e \in StageNames : (\E i \in DOMAIN EXPECTED_STAGES : EXPECTED_STAGES[i] = e) /\ StatusExists(dir, e)} |-> dir[s]]

IsMissing(stage_statuses, s) == s \notin DOMAIN stage_statuses

\* dict.get(key, default) on a JSON document
DictGet(doc, key, default) == IF key \in DOMAIN doc THEN doc[key] ELSE default

RollupAllSuccessIgnoresMissing(stage_statuses) ==
    \A s \in DOMAIN stage_statuses : DictGet(stage_statuses[s], "success", FALSE)

RollupAllSuccessOverStageOrder(stage_statuses) ==
    IF \E i \in DOMAIN STAGE_ORDER : IsMissing(stage_statuses, STAGE_ORDER[i])
    THEN FALSE
    ELSE \A s \in DOMAIN stage_statuses : DictGet(stage_statuses[s], "success", FALSE)

\* all_success of rollup.run
RollupAllSuccess(stage_statuses) ==
    IF \E i \in DOMAIN EXPECTED_STAGES : IsMissing(stage_statuses, EXPECTED_STAGES[i])
    THEN FALSE
    ELSE \A s \in DOMAIN stage_statuses : DictGet(stage_statuses[s], "success", FALSE)

RECURSIVE AggregateArtifactsReversed(_, _)
AggregateArtifactsReversed(stage_statuses, expected) ==
    IF expected = <<>>
    THEN <<>>
    ELSE AggregateArtifactsReversed(stage_statuses, Tail(expected))
         \o (IF Head(expected) \in DOMAIN stage_statuses
             THEN DictGet(stage_statuses[Head(expected)], "artifacts", <<>>)
             ELSE <<>>)

RECURSIVE AggregateArtifacts(_, _)
\* aggregated_artifacts: extend with each present stage's artifacts, in order
AggregateArtifacts(stage_statuses, expected) ==
    IF expected = <<>>
    THEN <<>>
    ELSE (IF Head(expected) \in DOMAIN stage_statuses
          THEN DictGet(stage_statuses[Head(expected)], "artifacts", <<>>)
          ELSE <<>>)
         \o AggregateArtifacts(stage_statuses, Tail(expected))

RollupOutcomeRaisesOnFailure(all_success) == IF all_success THEN "returned" ELSE "raise"

\* after write_stage_status the adapter executes `return ctx`, whatever
\* all_success is: "Rollup records result but never raises"
RollupOutcome(all_success) == "returned"

\* Stage F: soundmind.stages.rollup.run; writes its status, never raises
RollupRun ==
    /\ pc = "stage"
    /\ CurrentStage = "rollup"
    /\ LET stage_statuses == ReadStageStatuses(stage_status)
           all_success == RollupAllSuccess(stage_statuses)
       IN  /\ stage_status' = [stage_status EXCEPT !["rollup"] =
                   write_stage_status("rollup", all_success,
                                      AggregateArtifacts(stage_statuses, EXPECTED_STAGES), <<>>)]
           /\ pc' = RollupOutcome(all_success)
    /\ UNCHANGED <<wav, fault, idx, running, started, validated, signalled, files, job_status, pending, exc, failed_stage, pipeline_errors, result>>
    /\ UNCHANGED validator_vars
    /\ UNCHANGED cli_vars
    /\ UNCHANGED dsp_vars

Next ==
    \/ CallStage
    \/ LoopExit
    \/ IngestRun
    \/ SeparationRun
    \/ SqiRun
    \/ DiarizationRun
    \/ EventsRun
    \/ RollupRun
    \/ StageReturn
    \/ StageRaise
    \/ CatchStageFailure
    \/ PropagateException
    \/ Finalize

Spec == Init /\ [][Next]_vars

(***************************************************************************)
(* One call of StageValidator.validate on bounded inputs                   *)
(***************************************************************************)
ValidatorRoles == {RoleAudioSpeech, RoleAudioResidual, RoleMetadataSqi, RoleOther}

ValidatorTypes == {AudioWav, ApplicationJson, TypeAudioBare}

RequiredRoles == {RoleAudioSpeech, RoleAudioResidual, RoleMetadataSqi}

ValidatorArtifacts ==
    {build_artifact_ref("p", t, r, "d") : t \in ValidatorTypes, r \in ValidatorRoles}

ValidatorContracts ==
    {StageContract(n, req, {}, "1.0.0") : n \in {"test_stage", "sqi"}, req \in SUBSET RequiredRoles}

ArtifactLists ==
    UNION {[1..n -> ValidatorArtifacts] : n \in 0..MaxAvailable}

PipelineIdle ==
    /\ wav = [exists |-> FALSE, readable |-> FALSE, num_samples |-> 0, finite |-> TRUE, segments |-> 0]
    /\ fault = "none"
    /\ idx = 1
    /\ pc = "idle"
    /\ running = {}
    /\ started = <<>>
    /\ validated = {}
    /\ signalled = <<>>
    /\ stage_status = [s \in StageNames |-> NoStatus]
    /\ files = {}
    /\ job_status = InitializedJobStatus
    /\ pending = NoExc
    /\ exc = NoExc
    /\ failed_stage = Null
    /\ pipeline_errors = <<>>
    /\ result = StillRunning

InitValidate ==
    /\ PipelineIdle
    /\ CliIdle
    /\ DspIdle
    /\ v_contract \in ValidatorContracts
    /\ v_available \in ArtifactLists
    /\ v_result = NoResult

\* validator.validate(contract, available_artifacts)
ValidateCall ==
    /\ v_result = NoResult
    /\ v_result' = validate(v_contract, v_available)
    /\ UNCHANGED <<v_contract, v_available>>
    /\ UNCHANGED pipeline_vars
    /\ UNCHANGED cli_vars
    /\ UNCHANGED dsp_vars

NextValidate == ValidateCall

SpecValidate == InitValidate /\ [][NextValidate]_vars

(***************************************************************************)
(* One call of rollup.run(ctx) on a workspace whose five earlier stage     *)
(* directories hold any status documents                                   *)
(***************************************************************************)
\* an artifact reference recorded by stage s alone ("own"), and one every
\* stage may record ("shared": the same reference can occur in several lists)
RecordedRef(s, which) ==
    IF which = "own"
    THEN build_artifact_ref(<<s, "/out">>, ApplicationJson, RoleOther, s)
    ELSE build_artifact_ref(<<"shared", "/out">>, AudioWav, RoleAudioOriginal, "shared")

\* a status.json that is a JSON object without "success" and "artifacts"
PartialStatus(s) == [exists |-> TRUE, stage |-> s]

\* the kinds of status document: none, partial, failed, or successful with a
\* list of artifact references
DocumentKinds ==
    {[kind |-> "missing"], [kind |-> "partial"], [kind |-> "failed"]}
    \cup {[kind |-> "succeeded", refs |-> l] :
            l \in UNION {[1..n -> {"own", "shared"}] : n \in 0..MaxRecorded}}

\* what rollup.run may find in the directory of stage s
StatusDocument(s, k) ==
    CASE k.kind = "missing" -> NoStatus
      [] k.kind = "partial" -> PartialStatus(s)
      [] k.kind = "failed" -> FailedStatus(s, <<build_error("STAGE_ERROR", "failed", s, "detail")>>)
      [] k.kind = "succeeded" -> SucceededStatus(s, [i \in DOMAIN k.refs |-> RecordedRef(s, k.refs[i])])

ExpectedSet == {EXPECTED_STAGES[i] : i \in DOMAIN EXPECTED_STAGES}

RollupWorkspaces ==
    {[s \in StageNames |-> IF s = "rollup" THEN NoStatus ELSE StatusDocument(s, k[s])] :
        k \in [ExpectedSet -> DocumentKinds]}

\* the files the recorded artifact references point to
RecordedFiles(dir) ==
    UNION {{DictGet(dir[s], "artifacts", <<>>)[i].path :
                i \in DOMAIN DictGet(dir[s], "artifacts", <<>>)} : s \in ExpectedSet}

InitRollup ==
    /\ ValidatorIdle
    /\ CliIdle
    /\ DspIdle
    /\ wav = [exists |-> TRUE, readable |-> TRUE, num_samples |-> 1, finite |-> TRUE, segments |-> 0]
    /\ fault = "none"
    /\ idx = Len(STAGE_ORDER)
    /\ pc = "stage"
    /\ running = {"rollup"}
    /\ started = <<"rollup">>
    /\ validated = {}
    /\ signalled = <<>>
    /\ stage_status \in RollupWorkspaces
    /\ files = RecordedFiles(stage_status)
    /\ job_status = InitializedJobStatus
    /\ pending = NoExc
    /\ exc = NoExc
    /\ failed_stage = Null
    /\ pipeline_errors = <<>>
    /\ result = StillRunning

NextRollup == RollupRun

SpecRollup == InitRollup /\ [][NextRollup]_vars

(***************************************************************************)
(* `soundmind run` invocations racing for one job id under one jobs root:  *)
(* cmd_run and create_full_workspace, one action per file-system call      *)
(***************************************************************************)
\* STAGE_NAMES of soundmind/jobs.py
STAGE_NAMES == <<"ingest", "separation", "sqi", "diarization", "events", "rollup">>

\* writer of the entries that exist before any of the invocations starts
Earlier == 0

Entry(path, by) == [path |-> path, by |-> by]

\* Path.exists()
PathExists(tree, path) == \E e \in tree : e.path = path

\* a workspace left by an earlier, completed run
EarlierWorkspace ==
    {Entry(q, Earlier) : q \in {".", "meta", "input", "input/original.wav", "input/input.json",
                               "meta/run.json", "status.json", "stages"}}
    \cup {Entry(STAGE_NAMES[i], Earlier) : i \in DOMAIN STAGE_NAMES}

\* what <jobs_root>/<job_id> may hold when the invocations start
InitialTrees == {{}, {Entry(".", Earlier)}, EarlierWorkspace}

JobDirExistOkTrue == TRUE

\* job_dir.mkdir(parents=False, exist_ok=False)
JobDirExistOk == FALSE

\* Path.mkdir raises FileExistsError on an existing path unless exist_ok
MkdirRaises(tree, path, exist_ok) == PathExists(tree, path) /\ ~exist_ok

\* the tree after Path.mkdir(path) succeeded: an existing directory is kept
Mkdir(tree, path, by) ==
    IF PathExists(tree, path) THEN tree ELSE tree \cup {Entry(path, by)}

\* the tree after a file is written (created or overwritten) at path
WriteFile(tree, path, by) == {e \in tree : e.path # path} \cup {Entry(path, by)}

InitCli ==
    /\ ValidatorIdle
    /\ PipelineIdle
    /\ DspIdle
    /\ cli_pc = [p \in Runs |-> "check"]
    /\ cli_i = [p \in Runs |-> 1]
    /\ cli_exit = [p \in Runs |-> "none"]
    /\ fs_tree \in InitialTrees
    /\ fs_root \in {r \in BOOLEAN : fs_tree # {} => r}
    /\ fs_before = fs_tree

\* invocation p ends: an uncaught exception, or the value cmd_run returns
CliEnds(p, how) ==
    /\ cli_pc' = [cli_pc EXCEPT ![p] = "exited"]
    /\ cli_exit' = [cli_exit EXCEPT ![p] = how]

CliGoes(p, to) ==
    /\ cli_pc' = [cli_pc EXCEPT ![p] = to]
    /\ cli_exit' = cli_exit

\* if job_dir.exists(): raise WorkspaceExistsError; cmd_run catches it,
\* prints the error and returns 1
CheckExists(p) ==
    /\ cli_pc[p] = "check"
    /\ IF PathExists(fs_tree, ".")
       THEN CliEnds(p, "WorkspaceExistsError")
       ELSE CliGoes(p, "mkroot")
    /\ UNCHANGED <<cli_i, fs_root, fs_tree, fs_before>>
    /\ UNCHANGED validator_vars
    /\ UNCHANGED pipeline_vars
    /\ UNCHANGED dsp_vars

\* jobs_root.mkdir(parents=True, exist_ok=True)
MkdirJobsRoot(p) ==
    /\ cli_pc[p] = "mkroot"
    /\ fs_root' = TRUE
    /\ CliGoes(p, "mkjob")
    /\ UNCHANGED <<cli_i, fs_tree, fs_before>>
    /\ UNCHANGED validator_vars
    /\ UNCHANGED pipeline_vars
    /\ UNCHANGED dsp_vars

\* job_dir.mkdir(parents=False, exist_ok=False); a FileExistsError is no
\* WorkspaceExistsError, so cmd_run does not catch it
MkdirJobDir(p) ==
    /\ cli_pc[p] = "mkjob"
    /\ IF MkdirRaises(fs_tree, ".", JobDirExistOk)
       THEN /\ CliEnds(p, "FileExistsError")
            /\ fs_tree' = fs_tree
       ELSE /\ CliGoes(p, "mkmeta")
            /\ fs_tree' = Mkdir(fs_tree, ".", p)
    /\ UNCHANGED <<cli_i, fs_root, fs_before>>
    /\ UNCHANGED validator_vars
    /\ UNCHANGED pipeline_vars
    /\ UNCHANGED dsp_vars

\* a Path.mkdir() with the defaults: parents=False, exist_ok=False
MkdirPlain(p, at, path, to) ==
    /\ cli_pc[p] = at
    /\ IF MkdirRaises(fs_tree, path, FALSE)
       THEN /\ CliEnds(p, "FileExistsError")
            /\ fs_tree' = fs_tree
       ELSE /\ CliGoes(p, to)
            /\ fs_tree' = Mkdir(fs_tree, path, p)

\* meta_dir.mkdir()
MkdirMeta(p) ==
    /\ MkdirPlain(p, "mkmeta", "meta", "mkinput")
    /\ UNCHANGED <<cli_i, fs_root, fs_before>>
    /\ UNCHANGED validator_vars
    /\ UNCHANGED pipeline_vars
    /\ UNCHANGED dsp_vars

\* input_dir.mkdir()
MkdirInput(p) ==
    /\ MkdirPlain(p, "mkinput", "input", "mkstages")
    /\ UNCHANGED <<cli_i, fs_root, fs_before>>
    /\ UNCHANGED validator_vars
    /\ UNCHANGED pipeline_vars
    /\ UNCHANGED dsp_vars

\* for stage_name in STAGE_NAMES: stage_dir.mkdir()
MkdirStage(p) ==
    /\ cli_pc[p] = "mkstages"
    /\ cli_i[p] <= Len(STAGE_NAMES)
    /\ MkdirPlain(p, "mkstages", STAGE_NAMES[cli_i[p]], "mkstages")
    /\ cli_i' = [cli_i EXCEPT ![p] = cli_i[p] + 1]
    /\ UNCHANGED <<fs_root, fs_before>>
    /\ UNCHANGED validator_vars
    /\ UNCHANGED pipeline_vars
    /\ UNCHANGED dsp_vars

\* create_full_workspace returns the paths to cmd_run
WorkspaceCreated(p) ==
    /\ cli_pc[p] = "mkstages"
    /\ cli_i[p] > Len(STAGE_NAMES)
    /\ CliGoes(p, "copy")
    /\ UNCHANGED <<cli_i, fs_root, fs_tree, fs_before>>
    /\ UNCHANGED validator_vars
    /\ UNCHANGED pipeline_vars
    /\ UNCHANGED dsp_vars

\* one of cmd_run's writes into the workspace it created
CliWrite(p, at, path, to) ==
    /\ cli_pc[p] = at
    /\ fs_tree' = WriteFile(fs_tree, path, p)
    /\ CliGoes(p, to)

\* shutil.copy2(input_path, original_wav_path)
CopyInput(p) ==
    /\ CliWrite(p, "copy", "input/original.wav", "input_json")
    /\ UNCHANGED <<cli_i, fs_root, fs_before>>
    /\ UNCHANGED validator_vars
    /\ UNCHANGED pipeline_vars
    /\ UNCHANGED dsp_vars

\* input_json_path.write_text(...)
WriteInputJson(p) ==
    /\ CliWrite(p, "input_json", "input/input.json", "run_json")
    /\ UNCHANGED <<cli_i, fs_root, fs_before>>
    /\ UNCHANGED validator_vars
    /\ UNCHANGED pipeline_vars
    /\ UNCHANGED dsp_vars

\* run_json_path.write_text(...)
WriteRunJson(p) ==
    /\ CliWrite(p, "run_json", "meta/run.json", "status")
    /\ UNCHANGED <<cli_i, fs_root, fs_before>>
    /\ UNCHANGED validator_vars
    /\ UNCHANGED pipeline_vars
    /\ UNCHANGED dsp_vars

\* status_path.write_text(...): the initialized job status
WriteInitialStatus(p) ==
    /\ CliWrite(p, "status", "status.json", "pipeline")
    /\ UNCHANGED <<cli_i, fs_root, fs_before>>
    /\ UNCHANGED validator_vars
    /\ UNCHANGED pipeline_vars
    /\ UNCHANGED dsp_vars

\* success = run_pipeline(ctx): the stages write under their directories and
\* run_pipeline overwrites status.json; cmd_run returns 0 or 1
RunPipeline(p) ==
    /\ cli_pc[p] = "pipeline"
    /\ fs_tree' = WriteFile(WriteFile(fs_tree, "stages", p), "status.json", p)
    /\ \E success \in BOOLEAN :
          CliEnds(p, IF success THEN "returned 0" ELSE "returned 1")
    /\ UNCHANGED <<cli_i, fs_root, fs_before>>
    /\ UNCHANGED validator_vars
    /\ UNCHANGED pipeline_vars
    /\ UNCHANGED dsp_vars

NextCli ==
    \E p \in Runs :
        \/ CheckExists(p)
        \/ MkdirJobsRoot(p)
        \/ MkdirJobDir(p)
        \/ MkdirMeta(p)
        \/ MkdirInput(p)
        \/ MkdirStage(p)
        \/ WorkspaceCreated(p)
        \/ CopyInput(p)
        \/ WriteInputJson(p)
        \/ WriteRunJson(p)
        \/ WriteInitialStatus(p)
        \/ RunPipeline(p)

SpecCli == InitCli /\ [][NextCli]_vars

(***************************************************************************)
(* Properties of run_pipeline (specification Spec)                         *)
(***************************************************************************)
StartedSet == {started[i] : i \in DOMAIN started}

Terminated == pc \in {"done", "crashed"}

IsInitialized(js) == "state" \in DOMAIN js

\* C1: fail-fast. Once a stage has signalled failure (StageFailure) to
\* run_pipeline, no step of the run starts another stage: the list of
\* started stages never grows again.
C1_FailFast == [][Len(signalled) > 0 => started' = started]_vars

\* a run that ended after ingest signalled failure, with ingest alone started
C1_Witness ==
    /\ pc = "done"
    /\ signalled = <<"ingest">>
    /\ started = <<"ingest">>

\* C2: rollup always runs. Whenever the job-level status has been written,
\* the rollup stage has been started and has written its own status record,
\* also in a run in which an earlier stage failed.
C2_RollupAlwaysRuns ==
    ~IsInitialized(job_status) =>
        /\ "rollup" \in StartedSet
        /\ StatusExists(stage_status, "rollup")

\* C3: no stage body executes unless StageValidator.validate has first
\* succeeded for that stage: every started stage is a validated stage.
C3_ValidatedBeforeRun == \A i \in DOMAIN started : started[i] \in validated

\* C4: stages are started only in the fixed order ingest, separation, sqi,
\* diarization, events, rollup: at most one stage runs at a time, the started
\* stages are a prefix of the order (so none is started twice), and every
\* stage started before another has left run(ctx) with a success status.
C4_FixedOrder ==
    /\ Cardinality(running) <= 1
    /\ Len(started) <= Len(STAGE_ORDER)
    /\ \A i \in DOMAIN started : started[i] = STAGE_ORDER[i]
    /\ \A i \in DOMAIN started : \A j \in 1..(i - 1) :
          /\ started[j] \notin running
          /\ StatusExists(stage_status, started[j])
          /\ stage_status[started[j]].success

\* all six stages started, the five earlier ones finished, rollup running
C4_Witness ==
    /\ started = STAGE_ORDER
    /\ running = {"rollup"}

\* C5: an unexpected read or processing failure inside a stage is converted
\* into a structured stage failure: once the run has ended, the stage has a
\* status record with success=false, it is the job's failed_stage, the
\* job-level status has left its initialized state, and no raw exception has
\* left run_pipeline.
C5_UnexpectedFailureStructured ==
    \A s \in FaultStages :
        (fault = s /\ s \in StartedSet /\ Terminated) =>
            /\ StatusExists(stage_status, s)
            /\ ~stage_status[s].success
            /\ failed_stage = s
            /\ ~IsInitialized(job_status)
            /\ result # RaisedOut

IsFailureRecord(dir, stage) ==
    /\ StatusExists(dir, stage)
    /\ ~dir[stage].success
    /\ dir[stage].errors # <<>>

\* C6: whenever a stage is at its raise of StageFailure, or the StageFailure
\* is in flight, or it has been signalled, the stage's own status record
\* with success=false and a non-empty error list is already on disk.
C6_StatusBeforeSignal ==
    /\ pending.kind = "StageFailure" => IsFailureRecord(stage_status, pending.stage)
    /\ exc.kind = "StageFailure" => IsFailureRecord(stage_status, exc.stage)
    /\ \A i \in DOMAIN signalled : IsFailureRecord(stage_status, signalled[i])

\* ingest is about to raise StageFailure for an empty recording
C6_Witness ==
    /\ pc = "raise"
    /\ pending.kind = "StageFailure"
    /\ pending.errors[1].code = "INGEST_EMPTY_AUDIO"

\* C7: when run_pipeline has returned, the job-level status it wrote has
\* success true exactly when failed_stage is null; a failed_stage is the one
\* stage that signalled failure and errors is that stage's error list; the
\* returned boolean equals success; and the stages map lists exactly the
\* stages that wrote a status record, all six after a successful run.
C7_JobStatusConsistent ==
    pc = "done" =>
        /\ ~IsInitialized(job_status)
        /\ job_status.success = (job_status.failed_stage = Null)
        /\ result = ReturnedValue(job_status.success)
        /\ job_status.failed_stage = Null => signalled = <<>> /\ job_status.errors = <<>>
        /\ job_status.failed_stage # Null =>
              /\ signalled = <<job_status.failed_stage>>
              /\ IsFailureRecord(stage_status, job_status.failed_stage)
              /\ job_status.errors = stage_status[job_status.failed_stage].errors
        /\ DOMAIN job_status.stages = {s \in StageNames : StatusExists(stage_status, s)}
        /\ job_status.success => DOMAIN job_status.stages = StageNames

\* run_pipeline returned False after ingest rejected a non-finite recording
C7_Witness ==
    /\ pc = "done"
    /\ result = ReturnedValue(FALSE)
    /\ job_status.failed_stage = "ingest"
    /\ job_status.errors[1].code = "INGEST_INVALID_AUDIO"

(***************************************************************************)
(* Properties of StageValidator.validate (specification SpecValidate)      *)
(***************************************************************************)
\* the role/type rule, stated on one artifact
ViolatesRoleTypeRule(a) ==
    \/ StartsWith(a.role, AudioPrefix) /\ ~StartsWith(a.type, AudioPrefix)
    \/ StartsWith(a.role, MetadataPrefix) /\ a.type # ApplicationJson

SomeRoleAbsent(contract, available) ==
    \E r \in contract.requires : \A i \in DOMAIN available : available[i].role # r

\* C8: the call raises ValidationError if and only if a required role is
\* absent from the available artifacts or an available artifact violates the
\* role/type rule; it changes neither the contract nor the artifact list; a
\* contract with empty requires and no artifacts passes.
C8_RaisesIff ==
    [][v_result' # v_result =>
        /\ v_result'.called
        /\ v_result'.raised <=>
              (SomeRoleAbsent(v_contract, v_available)
               \/ \E i \in DOMAIN v_available : ViolatesRoleTypeRule(v_available[i]))
        /\ (v_contract.requires = {} /\ v_available = <<>>) => ~v_result'.raised
        /\ v_contract' = v_contract
        /\ v_available' = v_available]_vars

\* a call that raised for a missing role alone, two well-typed artifacts given
C8_Witness ==
    /\ v_result.called
    /\ v_result.raised
    /\ v_result.missing_roles # {}
    /\ v_result.type_errors = <<>>
    /\ Len(v_available) = 2

\* C9: a ValidationError carries the contract's name as stage, exactly the
\* required roles that no available artifact has as missing_roles, and
\* exactly the roles of the available artifacts as available_roles.
C9_ErrorFields ==
    (v_result.called /\ v_result.raised) =>
        /\ v_result.stage = v_contract.name
        /\ \A r \in ValidatorRoles :
              r \in v_result.missing_roles <=>
                  (r \in v_contract.requires /\ \A i \in DOMAIN v_available : v_available[i].role # r)
        /\ v_result.missing_roles \subseteq ValidatorRoles
        /\ \A r \in ValidatorRoles :
              r \in v_result.available_roles <=> \E i \in DOMAIN v_available : v_available[i].role = r
        /\ v_result.available_roles \subseteq ValidatorRoles

\* a raise where one required role is present and another one is missing
C9_Witness ==
    /\ v_result.called
    /\ v_result.raised
    /\ v_result.missing_roles = {RoleAudioResidual}
    /\ RoleAudioSpeech \in v_contract.requires
    /\ RoleAudioSpeech \in v_result.available_roles

\* the indices of the available artifacts that violate the role/type rule
Offenders(available) == {i \in DOMAIN available : ViolatesRoleTypeRule(available[i])}

\* C10: each available artifact that violates the role/type rule (audio/*
\* role without audio/* type, metadata/* role without type application/json)
\* makes the call fail with one type error naming its role, in list order,
\* whether or not the contract requires that role; artifacts that respect
\* the rule add no type error.
C10_RoleTypeRule ==
    v_result.called =>
        LET bad == Offenders(v_available)
        IN  /\ bad # {} => v_result.raised
            /\ v_result.raised =>
                  /\ Len(v_result.type_errors) = Cardinality(bad)
                  /\ \A k \in DOMAIN v_result.type_errors :
                        \E i \in bad :
                            /\ Cardinality({j \in bad : j <= i}) = k
                            /\ Contains(v_result.type_errors[k],
                                        <<"'">> \o v_available[i].role \o <<"'">>)
                            /\ Contains(v_result.type_errors[k],
                                        <<"'">> \o v_available[i].type \o <<"'">>)

\* a metadata artifact of type audio/wav, not required by the contract,
\* fails a validation that misses no role
C10_Witness ==
    /\ v_result.called
    /\ v_result.raised
    /\ v_result.missing_roles = {}
    /\ Len(v_result.type_errors) = 1
    /\ \E i \in DOMAIN v_available :
          /\ v_available[i].role = RoleMetadataSqi
          /\ v_available[i].type = AudioWav
          /\ RoleMetadataSqi \notin v_contract.requires

(***************************************************************************)
(* The signal path: soundmind/audio.py and the adapters of separation,     *)
(* sqi, diarization and events                                             *)
(*                                                                         *)
(* A sample is its 16-bit code q: the float32 value read_wav returns for   *)
(* it is q / 32768.  A recording is mono PCM_16 at the canonical rate, so  *)
(* normalize_audio neither downmixes nor resamples it.  Mean squares are   *)
(* kept as fractions <<sum of squared codes, number of samples>> and the   *)
(* comparisons of the code are decided on the exact values; the rounding   *)
(* of the float32 sums is left out.  The status records and artifact lists *)
(* these stages write are those of the adapters above; here the same calls *)
(* are followed on the data they compute.                                  *)
(***************************************************************************)
\* audio.CANONICAL_SAMPLE_RATE at the scale of the model: samples per second
SampleRate == 100

\* longest recording enumerated sample by sample
MaxLen == 6

\* most zero samples before a long run of sound, and between two long runs
MaxPad == 4

FRAME_MS == 30

HOP_MS == 10

\* EPS = 1e-10, in squared sample codes: 2^30 / 10^10 = 1048576 / 9765625
EPS == <<1048576, 9765625>>

\* the codes a sample of an enumerated recording takes
SampleCodes == {0, 340, -1000}

Max2(a, b) == IF a >= b THEN a ELSE b

Min2(a, b) == IF a <= b THEN a ELSE b

Abs(x) == IF x < 0 THEN -x ELSE x

\* an array given by its elements: the same sequence, each element computed
\* once
Array(f) == <<>> \o f

\* the Python slice s[start:end] with 0 <= start
Slice(s, start, end) == SubSeq(s, start + 1, Min2(end, Len(s)))

\* A sum of squared codes does not fit the integers of the checker: it is
\* kept as the pair <<h, l>> that stands for h * 2^15 + l, with l < 2^15.
Wide(h, l) == <<h + (l \div 32768), l % 32768>>

WideLeq(a, b) ==
    \/ a[1] < b[1]
    \/ a[1] = b[1] /\ a[2] <= b[2]

RECURSIVE SumSqHigh(_)
SumSqHigh(s) == IF s = <<>> THEN 0 ELSE ((Head(s) * Head(s)) \div 32768) + SumSqHigh(Tail(s))

RECURSIVE SumSqLow(_)
SumSqLow(s) == IF s = <<>> THEN 0 ELSE ((Head(s) * Head(s)) % 32768) + SumSqLow(Tail(s))

\* np.sum(samples ** 2), in squared codes
SumSq(s) == Wide(SumSqHigh(s), SumSqLow(s))

\* np.mean(samples ** 2)
MeanSquare(s) == <<SumSq(s), Len(s)>>

\* frame_samples = int(sr * frame_ms / 1000)
frame_samples(sr, frame_ms) == (sr * frame_ms) \div 1000

\* hop_samples = int(sr * hop_ms / 1000)
hop_samples(sr, hop_ms) == (sr * hop_ms) \div 1000

\* n_frames = max(1, (len(samples) - frame_samples) // hop_samples + 1)
n_frames(num_samples, sr, frame_ms, hop_ms) ==
    Max2(1, ((num_samples - frame_samples(sr, frame_ms)) \div hop_samples(sr, hop_ms)) + 1)

\* rms[i] = np.sqrt(np.mean(frame ** 2) + EPS), kept as the mean square of
\* the frame samples[start:end]
compute_frame_rms(samples, frame_ms, hop_ms, sr) ==
    [i \in 1..n_frames(Len(samples), sr, frame_ms, hop_ms) |->
        MeanSquare(Slice(samples, (i - 1) * hop_samples(sr, hop_ms),
                         (i - 1) * hop_samples(sr, hop_ms) + frame_samples(sr, frame_ms)))]

\* frame_rms > max(global_rms * 0.5, EPS), with frame_rms = sqrt(f + EPS) and
\* global_rms = sqrt(g + EPS): squared, 4 * (f + EPS) > g + EPS; the second
\* bound, sqrt(f + EPS) > EPS, holds for every f >= 0 since EPS < 1.
\* With f = frame[1] / frame[2] and g = global[1] / global[2] this is
\* (global[1] * frame[2] - 4 * frame[1] * global[2]) * EPS[2]
\*     < 3 * EPS[1] * frame[2] * global[2].
RmsAbove(frame, global) ==
    LET slack == (3 * EPS[1] * frame[2] * global[2] - 1) \div EPS[2]
    IN  WideLeq(Wide(global[1][1] * frame[2], global[1][2] * frame[2]),
                Wide(frame[1][1] * 4 * global[2], frame[1][2] * 4 * global[2] + slack))

\* sample_mask[i] = frame_mask[min(i // hop_samples, len(frame_mask) - 1)]
frame_mask_to_samples(frame_mask, num_samples, hop_ms, sr) ==
    [i \in 1..num_samples |->
        frame_mask[Min2((i - 1) \div hop_samples(sr, hop_ms), Len(frame_mask) - 1) + 1]]

\* the sample-level mask: 1 = speech, 0 = non-speech
build_speech_mask(samples, sr, frame_ms, hop_ms) ==
    LET frame_rms == compute_frame_rms(samples, frame_ms, hop_ms, sr)
        global == MeanSquare(samples)
        frame_mask == Array([i \in DOMAIN frame_rms |-> IF RmsAbove(frame_rms[i], global) THEN 1 ELSE 0])
    IN  Array(frame_mask_to_samples(frame_mask, Len(samples), hop_ms, sr))

\* write_wav then a read of the file: np.clip(samples, -1.0, 1.0), the
\* PCM_16 conversion (the nearest code to x * 32767) and its inverse
Pcm16(q) ==
    LET clipped == Max2(-32768, Min2(q, 32768))
        code == (2 * Abs(clipped) * 32767 + 32768) \div 65536
    IN  IF clipped < 0 THEN -code ELSE code

RECURSIVE Sum(_)
Sum(s) == IF s = <<>> THEN 0 ELSE Head(s) + Sum(Tail(s))

RECURSIVE PeakAbs(_)
\* compute_peak_abs: np.max(np.abs(samples)) of a non-empty array
PeakAbs(s) == IF Len(s) = 1 THEN Abs(s[1]) ELSE Max2(Abs(Head(s)), PeakAbs(Tail(s)))

\* np.sign
Sign(x) == IF x > 0 THEN 1 ELSE IF x < 0 THEN -1 ELSE 0

\* compute_zero_crossing_rate, as the fraction <<crossings, len - 1>>
compute_zero_crossing_rate(s) ==
    IF Len(s) < 2
    THEN <<0, 1>>
    ELSE <<Cardinality({i \in 1..(Len(s) - 1) : Sign(s[i + 1]) # Sign(s[i])}), Len(s) - 1>>

\* a job id
JobId(n) == <<"job", n>>

\* write_stage_status(stage_dir, ctx.job_id, stage, True, started_at, ...):
\* what of the stage's status.json comes from the run and not from the
\* recording; started_at = now_iso() is read when the stage is entered
SignalStatus(stage) ==
    [job_id |-> d_run.job_id, stage |-> stage, success |-> TRUE, started_at |-> d_run.now]

\* speech = samples * mask
SpeechStem(samples, mask) == Array([i \in DOMAIN samples |-> samples[i] * mask[i]])

ResidualStemKeepsInput(samples, speech) == samples

\* residual = samples - speech
ResidualStem(samples, speech) == Array([i \in DOMAIN samples |-> samples[i] - speech[i]])

\* separation.run: mask, stems, the two WAV files
SeparationSignal ==
    /\ d_pc = "separation"
    /\ LET samples == d_input
           mask == build_speech_mask(samples, SampleRate, FRAME_MS, HOP_MS)
           speech == SpeechStem(samples, mask)
           residual == ResidualStem(samples, speech)
       IN  d_stems' = [written |-> TRUE, status |-> SignalStatus("separation"), mask |-> mask,
                       speech_float |-> speech, residual_float |-> residual,
                       speech |-> [i \in DOMAIN speech |-> Pcm16(speech[i])],
                       residual |-> [i \in DOMAIN residual |-> Pcm16(residual[i])]]
    /\ d_pc' = "sqi"
    /\ UNCHANGED <<d_input, d_sqi, d_diar, d_events, d_candidates, d_run, d_earlier, scan>>
    /\ UNCHANGED validator_vars
    /\ UNCHANGED pipeline_vars
    /\ UNCHANGED cli_vars

\* sqi.run: the seven metrics of sqi.json, computed from speech.wav;
\* speech_ratio = float(np.mean(mask)) is the fraction <<ones, len>>
SqiSignal ==
    /\ d_pc = "sqi"
    /\ LET samples == d_stems.speech
           mask == build_speech_mask(samples, SampleRate, FRAME_MS, HOP_MS)
       IN  d_sqi' = [written |-> TRUE,
                     status |-> SignalStatus("sqi"),
                     duration_sec |-> <<Len(samples), SampleRate>>,
                     num_samples |-> Len(samples),
                     peak_abs |-> PeakAbs(samples),
                     rms |-> MeanSquare(samples),
                     sample_rate_hz |-> SampleRate,
                     speech_ratio |-> <<Sum(mask), Len(mask)>>,
                     zero_crossing_rate |-> compute_zero_crossing_rate(samples)]
    /\ d_pc' = "diarization"
    /\ UNCHANGED <<d_input, d_stems, d_diar, d_events, d_candidates, d_run, d_earlier, scan>>
    /\ UNCHANGED validator_vars
    /\ UNCHANGED pipeline_vars
    /\ UNCHANGED cli_vars

(***************************************************************************)
(* Python floats                                                           *)
(*                                                                         *)
(* A non-negative float is the sequence of the digits of its exact value   *)
(* in base Fixed.base = 2^Fixed.bits, Fixed.int digits before the point    *)
(* and Fixed.frac after it, of which only Fixed.significand leading bits   *)
(* may be set (IEEE 754 binary64).  Each operation computes the exact      *)
(* result and rounds it to the nearest float, ties to even, as true        *)
(* division, subtraction and multiplication do.                            *)
(***************************************************************************)
Fixed == [base |-> 32768, bits |-> 15, int |-> 2, frac |-> 5, significand |-> 53]

FixedDigits == Fixed.int + Fixed.frac

RECURSIVE Pow2(_)
Pow2(n) == IF n = 0 THEN 1 ELSE 2 * Pow2(n - 1)

RECURSIVE BitLength(_)
BitLength(v) == IF v = 0 THEN 0 ELSE 1 + BitLength(v \div 2)

RECURSIVE FracDigits(_, _, _)
\* the first n digits of r / b after the point, 0 <= r < b
FracDigits(r, b, n) ==
    IF n = 0
    THEN <<>>
    ELSE <<(r * Fixed.base) \div b>> \o FracDigits((r * Fixed.base) % b, b, n - 1)

RECURSIVE FracRemainder(_, _, _)
\* what long division leaves after those n digits
FracRemainder(r, b, n) ==
    IF n = 0 THEN r ELSE FracRemainder((r * Fixed.base) % b, b, n - 1)

RECURSIVE IntDigits(_, _)
\* the n digits of the integer v
IntDigits(v, n) ==
    IF n = 0 THEN <<>> ELSE Append(IntDigits(v \div Fixed.base, n - 1), v % Fixed.base)

\* position of the leading one bit of x, counted from the top; 0 if x is zero
LeadingOne(x) ==
    LET nonzero == {j \in 1..FixedDigits : x[j] # 0}
        first == CHOOSE j \in nonzero : \A m \in nonzero : j <= m
    IN  IF nonzero = {} THEN 0 ELSE (first - 1) * Fixed.bits + (Fixed.bits - BitLength(x[first])) + 1

RECURSIVE AddAt(_, _, _)
\* x plus unit in digit j, carrying upwards
AddAt(x, j, unit) ==
    IF x[j] + unit < Fixed.base
    THEN [x EXCEPT ![j] = x[j] + unit]
    ELSE AddAt([x EXCEPT ![j] = x[j] + unit - Fixed.base], j - 1, 1)

\* x, followed by a non-zero tail below its last digit iff `more`, rounded
\* at bit position `last` to nearest, ties to even
RoundAt(x, more, last) ==
    LET j == ((last - 1) \div Fixed.bits) + 1
        unit == Pow2(Fixed.bits - 1 - ((last - 1) % Fixed.bits))
        below == x[j] % unit
        guard == IF unit > 1 THEN below >= unit \div 2 ELSE x[j + 1] >= Fixed.base \div 2
        sticky == \/ more
                  \/ IF unit > 1
                     THEN below % (unit \div 2) # 0 \/ \E m \in (j + 1)..FixedDigits : x[m] # 0
                     ELSE x[j + 1] % (Fixed.base \div 2) # 0 \/ \E m \in (j + 2)..FixedDigits : x[m] # 0
        up == guard /\ (sticky \/ (x[j] \div unit) % 2 = 1)
        kept == [m \in 1..FixedDigits |-> IF m < j THEN x[m] ELSE IF m = j THEN x[j] - below ELSE 0]
    IN  IF up THEN AddAt(kept, j, unit) ELSE kept

\* the float nearest to the exact value x
RoundToFloat(x, more) ==
    IF LeadingOne(x) = 0 \/ LeadingOne(x) + Fixed.significand - 1 >= FixedDigits * Fixed.bits
    THEN x
    ELSE RoundAt(x, more, LeadingOne(x) + Fixed.significand - 1)

\* a / b for ints a >= 0, b > 0 (true division is correctly rounded)
Quotient(a, b) ==
    RoundToFloat(IntDigits(a \div b, Fixed.int) \o FracDigits(a % b, b, Fixed.frac),
                 FracRemainder(a % b, b, Fixed.frac) # 0)

RECURSIVE SubtractFrom(_, _, _, _)
SubtractFrom(x, y, i, borrow) ==
    IF i = 0
    THEN <<>>
    ELSE LET t == x[i] - y[i] - borrow
         IN  Append(SubtractFrom(x, y, i - 1, IF t < 0 THEN 1 ELSE 0),
                    IF t < 0 THEN t + Fixed.base ELSE t)

\* x - y for floats x >= y
Difference(x, y) == RoundToFloat(SubtractFrom(x, y, FixedDigits, 0), FALSE)

RECURSIVE MultiplyFrom(_, _, _, _)
\* the exact product of x and an int 0 <= n < 2 * Fixed.base
MultiplyFrom(x, n, i, carry) ==
    IF i = 0
    THEN <<>>
    ELSE Append(MultiplyFrom(x, n, i - 1, (x[i] * n + carry) \div Fixed.base),
                (x[i] * n + carry) % Fixed.base)

\* x * n for a float x and an int n
Product(x, n) == RoundToFloat(MultiplyFrom(x, n, FixedDigits, 0), FALSE)

RECURSIVE IntValue(_, _)
IntValue(x, i) == IF i = 0 THEN 0 ELSE x[i] + Fixed.base * IntValue(x, i - 1)

\* int(x) for a float x >= 0
Floor(x) == IntValue(x, Fixed.int)

\* x >= y
GreaterEq(x, y) ==
    LET differ == {j \in 1..FixedDigits : x[j] # y[j]}
        first == CHOOSE j \in differ : \A m \in differ : j <= m
    IN  differ = {} \/ x[first] > y[first]

\* round(x, 6) and float(f"{x:.6f}"): the multiple of 10^-6 nearest to the
\* exact value of x, ties to even, as a number of microseconds
RoundMicro(x) ==
    Floor(RoundAt(MultiplyFrom(MultiplyFrom(x, 1000, FixedDigits, 0), 1000, FixedDigits, 0),
                  FALSE, Fixed.int * Fixed.bits))

(***************************************************************************)
(* Diarization                                                             *)
(***************************************************************************)
\* MIN_SEGMENT_DURATION = 0.2: the float nearest to 2/10
MIN_SEGMENT_DURATION == Quotient(2, 10)

SPEAKER_ID == "SPEAKER_00"

\* the tuple (start / sr, i / sr); from and to keep the sample indices
Region(start, i, sr) ==
    [start |-> Quotient(start, sr), end |-> Quotient(i, sr), from |-> start, to |-> i]

RECURSIVE ScanRegions(_, _, _, _, _, _)
\* the loop `for i in range(len(samples))` from index i on, and the tail
\* that closes a region extending to the end
ScanRegions(samples, sr, i, in_region, start, regions) ==
    IF i >= Len(samples)
    THEN IF in_region THEN Append(regions, Region(start, Len(samples), sr)) ELSE regions
    ELSE IF samples[i + 1] # 0 /\ ~in_region
         THEN ScanRegions(samples, sr, i + 1, TRUE, i, regions)
         ELSE IF samples[i + 1] = 0 /\ in_region
              THEN ScanRegions(samples, sr, i + 1, FALSE, start, Append(regions, Region(start, i, sr)))
              ELSE ScanRegions(samples, sr, i + 1, in_region, start, regions)

find_speech_regions(samples, sr) == ScanRegions(samples, sr, 0, FALSE, 0, <<>>)

\* (e - s) >= min_duration
LongEnough(seg, min_duration) == GreaterEq(Difference(seg.end, seg.start), min_duration)

drop_short_segments(segments, min_duration) ==
    SelectSeq(segments, LAMBDA seg : LongEnough(seg, min_duration))

RECURSIVE extract_and_concatenate(_, _, _)
\* chunks of samples[int(start_sec * sr) : min(len(samples), int(end_sec * sr))]
extract_and_concatenate(samples, segments, sr) ==
    IF segments = <<>>
    THEN <<>>
    ELSE LET start_idx == Max2(0, Floor(Product(Head(segments).start, sr)))
             end_idx == Min2(Len(samples), Floor(Product(Head(segments).end, sr)))
         IN  (IF end_idx > start_idx THEN Slice(samples, start_idx, end_idx) ELSE <<>>)
             \o extract_and_concatenate(samples, Tail(segments), sr)

\* "speakers": [{...}] if segments else []
SpeakerEntries(segments) ==
    IF segments # <<>>
    THEN <<[speaker_id |-> SPEAKER_ID,
            segments |-> [k \in DOMAIN segments |->
                            [start_s |-> RoundMicro(segments[k].start),
                             end_s |-> RoundMicro(segments[k].end)]]]>>
    ELSE <<>>

WritesSpeakerAudioAlways(segments) == TRUE

\* if segments: write per_speaker/SPEAKER_00.wav and append its artifact
WritesSpeakerAudio(segments) == segments # <<>>

\* diarization.run
DiarizationSignal ==
    /\ d_pc = "diarization"
    /\ LET samples == d_stems.speech
           sr == SampleRate
           regions == find_speech_regions(samples, sr)
           segments == drop_short_segments(regions, MIN_SEGMENT_DURATION)
           speaker_samples == extract_and_concatenate(samples, segments, sr)
       IN  d_diar' =
             [written |-> TRUE,
              status |-> SignalStatus("diarization"),
              regions |-> regions,
              segments |-> segments,
              sample_rate |-> SampleRate,
              speakers |-> SpeakerEntries(segments),
              speaker_wav |-> IF WritesSpeakerAudio(segments)
                              THEN [written |-> TRUE,
                                    samples |-> [i \in DOMAIN speaker_samples |-> Pcm16(speaker_samples[i])]]
                              ELSE [written |-> FALSE],
              artifacts |-> <<build_artifact_ref(<<"diarization", "/diarization.json">>, ApplicationJson,
                                                 RoleMetadataDiarization, "segmentation")>>
                            \o (IF WritesSpeakerAudio(segments)
                                THEN <<build_artifact_ref(<<"diarization", "/per_speaker/SPEAKER_00.wav">>,
                                                          AudioWav, RoleAudioDiarizedSpeaker, "speaker")>>
                                ELSE <<>>)]
    /\ d_pc' = "events"
    /\ UNCHANGED <<d_input, d_stems, d_sqi, d_events, d_candidates, d_run, d_earlier, scan>>
    /\ UNCHANGED validator_vars
    /\ UNCHANGED pipeline_vars
    /\ UNCHANGED cli_vars

(***************************************************************************)
(* Events                                                                  *)
(***************************************************************************)
\* IMPULSE_PEAK_THRESHOLD = 0.01
IMPULSE_PEAK_THRESHOLD == <<1, 100>>

\* IMPULSE_PEAK_RATIO = 0.6
IMPULSE_PEAK_RATIO == <<6, 10>>

\* IMPULSE_MAX_DURATION_SEC = 0.1: the float nearest to 1/10
IMPULSE_MAX_DURATION_SEC == Quotient(1, 10)

NonSpeechBelowClick(speech_int16) ==
    Array([i \in DOMAIN speech_int16 |-> IF Abs(speech_int16[i]) <= 340 THEN 1 ELSE 0])

\* (speech_int16 == 0).astype(np.float32): 1 = non-speech, 0 = speech
build_non_speech_mask_from_int16(speech_int16) ==
    Array([i \in DOMAIN speech_int16 |-> IF speech_int16[i] = 0 THEN 1 ELSE 0])

\* np.mean(non_speech_mask[start:end]) < 0.5
MaskMeanBelowHalf(mask) == 2 * Sum(mask) < Len(mask)

ExceedsRatioOnly(peak, global_peak) ==
    peak * IMPULSE_PEAK_RATIO[2] > global_peak * IMPULSE_PEAK_RATIO[1]

\* peak > threshold, threshold = max(global_peak * IMPULSE_PEAK_RATIO,
\* IMPULSE_PEAK_THRESHOLD), for peaks peak / 32768 and global_peak / 32768.
\* The float product global_peak * 0.6 is k / 32768 whenever 0.6 * global_peak
\* is a whole code k, so the floats compare as the exact values do.
ExceedsThreshold(peak, global_peak) ==
    /\ peak * IMPULSE_PEAK_RATIO[2] > global_peak * IMPULSE_PEAK_RATIO[1]
    /\ peak * IMPULSE_PEAK_THRESHOLD[2] > 32768 * IMPULSE_PEAK_THRESHOLD[1]

\* peak < threshold
BelowThreshold(peak, global_peak) ==
    \/ peak * IMPULSE_PEAK_RATIO[2] < global_peak * IMPULSE_PEAK_RATIO[1]
    \/ peak * IMPULSE_PEAK_THRESHOLD[2] < 32768 * IMPULSE_PEAK_THRESHOLD[1]

\* max_duration_samples = int(IMPULSE_MAX_DURATION_SEC * sr)
max_duration_samples(sr) == Floor(Product(IMPULSE_MAX_DURATION_SEC, sr))

\* start and end of frame i (0-based): i * hop_samples and
\* min(start + frame_samples, len(residual_samples))
FrameStart(i, sr) == i * hop_samples(sr, HOP_MS)

FrameEnd(i, sr, num_samples) == Min2(FrameStart(i, sr) + frame_samples(sr, FRAME_MS), num_samples)

RECURSIVE ExtendImpulse(_, _, _, _, _, _, _)
\* the loop `while j < n_frames` that extends a candidate forward; the
\* result is <<impulse_end, j>>
ExtendImpulse(residual_samples, non_speech_mask, sr, global_peak, impulse_start, impulse_end, j) ==
    LET next_start == FrameStart(j, sr)
        next_end == FrameEnd(j, sr, Len(residual_samples))
    IN  IF j >= n_frames(Len(residual_samples), sr, FRAME_MS, HOP_MS)
        THEN <<impulse_end, j>>
        ELSE IF next_end - impulse_start > max_duration_samples(sr)
        THEN <<impulse_end, j>>
        ELSE IF MaskMeanBelowHalf(Slice(non_speech_mask, next_start, next_end))
        THEN <<impulse_end, j>>
        ELSE IF BelowThreshold(PeakAbs(Slice(residual_samples, next_start, next_end)), global_peak)
        THEN <<impulse_end, j>>
        ELSE ExtendImpulse(residual_samples, non_speech_mask, sr, global_peak, impulse_start, next_end, j + 1)

\* (impulse_end - impulse_start) / sr <= IMPULSE_MAX_DURATION_SEC
WithinMaxDuration(impulse_start, impulse_end, sr) ==
    GreaterEq(IMPULSE_MAX_DURATION_SEC, Quotient(impulse_end - impulse_start, sr))

AllNonSpeechUnchecked(non_speech_mask, impulse_start, impulse_end) == TRUE

\* np.all(non_speech_mask[impulse_start:impulse_end] > 0.5)
AllNonSpeech(non_speech_mask, impulse_start, impulse_end) ==
    \A i \in (impulse_start + 1)..impulse_end : non_speech_mask[i] = 1

\* a candidate impulse [from, to) and whether the detector appended its event
Candidate(non_speech_mask, impulse_start, impulse_end, sr) ==
    [from |-> impulse_start, to |-> impulse_end,
     emitted |-> /\ WithinMaxDuration(impulse_start, impulse_end, sr)
                 /\ AllNonSpeech(non_speech_mask, impulse_start, impulse_end)]

RECURSIVE ScanImpulses(_, _, _, _, _)
\* the loop `while i < n_frames` from frame i on: the candidates it forms
ScanImpulses(residual_samples, non_speech_mask, sr, global_peak, i) ==
    LET start_sample == FrameStart(i, sr)
        end_sample == FrameEnd(i, sr, Len(residual_samples))
        extent == ExtendImpulse(residual_samples, non_speech_mask, sr, global_peak,
                                start_sample, end_sample, i + 1)
    IN  IF i >= n_frames(Len(residual_samples), sr, FRAME_MS, HOP_MS)
        THEN <<>>
        ELSE IF MaskMeanBelowHalf(Slice(non_speech_mask, start_sample, end_sample))
        THEN ScanImpulses(residual_samples, non_speech_mask, sr, global_peak, i + 1)
        ELSE IF ExceedsThreshold(PeakAbs(Slice(residual_samples, start_sample, end_sample)), global_peak)
        THEN <<Candidate(non_speech_mask, start_sample, extent[1], sr)>>
             \o ScanImpulses(residual_samples, non_speech_mask, sr, global_peak, extent[2])
        ELSE ScanImpulses(residual_samples, non_speech_mask, sr, global_peak, i + 1)

EventOfStamped(candidate, sr) ==
    [type |-> "impulsive_sound",
     start_s |-> RoundMicro(Quotient(candidate.from, sr)),
     end_s |-> RoundMicro(Quotient(candidate.to, sr)),
     confidence |-> d_run.now]

\* the event dict of a candidate; times are float(f"{sample / sr:.6f}")
EventOf(candidate, sr) ==
    [type |-> "impulsive_sound",
     start_s |-> RoundMicro(Quotient(candidate.from, sr)),
     end_s |-> RoundMicro(Quotient(candidate.to, sr)),
     confidence |-> "1.0"]

\* the sort key (start_s, end_s, type); every type is the same string
KeyLeq(a, b) ==
    \/ a.start_s < b.start_s
    \/ a.start_s = b.start_s /\ a.end_s <= b.end_s

RECURSIVE InsertEvent(_, _)
InsertEvent(e, sorted) ==
    IF sorted = <<>>
    THEN <<e>>
    ELSE IF KeyLeq(sorted[Len(sorted)], e)
         THEN Append(sorted, e)
         ELSE Append(InsertEvent(e, SubSeq(sorted, 1, Len(sorted) - 1)), sorted[Len(sorted)])

RECURSIVE SortEventsDescending(_)
SortEventsDescending(events) ==
    IF events = <<>>
    THEN <<>>
    ELSE <<events[Len(events)]>> \o SortEventsDescending(SubSeq(events, 1, Len(events) - 1))

RECURSIVE SortEvents(_)
\* events.sort(key=...): a stable sort
SortEvents(events) ==
    IF events = <<>>
    THEN <<>>
    ELSE InsertEvent(events[Len(events)], SortEvents(SubSeq(events, 1, Len(events) - 1)))

RECURSIVE EventsOf(_, _)
\* events.append for the candidates that passed both checks, in scan order
EventsOf(candidates, sr) ==
    IF candidates = <<>>
    THEN <<>>
    ELSE (IF Head(candidates).emitted THEN <<EventOf(Head(candidates), sr)>> ELSE <<>>)
         \o EventsOf(Tail(candidates), sr)

\* _detect_impulses_non_speech_only
detect_impulses_non_speech_only(residual_samples, non_speech_mask, sr) ==
    ScanImpulses(residual_samples, non_speech_mask, sr, PeakAbs(residual_samples), 0)

\* events.run: _compute_events on the two stems, then events.json
EventsSignal ==
    /\ d_pc = "events"
    /\ LET non_speech_mask == build_non_speech_mask_from_int16(d_stems.speech)
           candidates == detect_impulses_non_speech_only(d_stems.residual, non_speech_mask, SampleRate)
       IN  /\ d_candidates' = candidates
           /\ d_events' = [written |-> TRUE, status |-> SignalStatus("events"),
                            non_speech_mask |-> non_speech_mask,
                            events |-> SortEvents(EventsOf(candidates, SampleRate))]
    /\ d_pc' = "done"
    /\ UNCHANGED <<d_input, d_stems, d_sqi, d_diar, d_run, d_earlier, scan>>
    /\ UNCHANGED validator_vars
    /\ UNCHANGED pipeline_vars
    /\ UNCHANGED cli_vars

(***************************************************************************)
(* Specification of the signal path: one recording, stage after stage      *)
(***************************************************************************)
Silence(n) == [i \in 1..n |-> 0]

Tone(n) == [i \in 1..n |-> -1000]

\* the number of samples in MIN_SEGMENT_DURATION, rounded down
MinRun == (2 * SampleRate) \div 10

RunLengths == {MinRun - 1, MinRun, MinRun + 1}

\* a short quiet sound
Click == <<340>>

\* what follows the long runs: nothing, one click, or two clicks apart
Tails == {<<>>, Silence(2) \o Click, Silence(2) \o Click \o Silence(3) \o Click}

\* recordings with one or two long runs of sound between stretches of silence
LongRecordings ==
    {Silence(lead) \o Tone(n) \o Silence(gap) \o Tone(m) \o tail :
        lead \in 0..MaxPad, n \in RunLengths, gap \in 1..MaxPad, m \in {0} \cup RunLengths,
        tail \in Tails}

\* a sound above half of full scale
Loud(n) == [i \in 1..n |-> 20000]

\* recordings with one long run of loud sound
LoudRecordings ==
    {Silence(lead) \o Loud(n) \o Silence(1) : lead \in 0..MaxPad, n \in RunLengths}

\* a stretch of quiet sound
Burst(n) == [i \in 1..n |-> 340]

\* a stretch of sound below IMPULSE_PEAK_THRESHOLD
Faint(n) == [i \in 1..n |-> 300]

\* recordings with a long run and then a stretch of quiet or faint sound
\* about as long as IMPULSE_MAX_DURATION_SEC
BurstRecordings ==
    {Tone(MinRun + 1) \o Silence(gap) \o sound :
        gap \in 1..MaxPad,
        sound \in UNION {{Burst(n), Faint(n)} :
                     n \in (max_duration_samples(SampleRate) - 1)..(max_duration_samples(SampleRate) + 3)}}

Recordings ==
    UNION {[1..n -> SampleCodes] : n \in 1..MaxLen}
    \cup LongRecordings
    \cup LoudRecordings
    \cup BurstRecordings

InitDsp ==
    /\ ValidatorIdle
    /\ PipelineIdle
    /\ CliIdle
    /\ d_pc = "separation"
    /\ d_input \in Recordings
    /\ d_stems = [written |-> FALSE]
    /\ d_sqi = [written |-> FALSE]
    /\ d_diar = [written |-> FALSE]
    /\ d_events = [written |-> FALSE]
    /\ d_candidates = <<>>
    /\ d_run = [job_id |-> JobId(1), now |-> 1]
    /\ d_earlier = <<>>
    /\ scan = [pc |-> "idle"]

NextDsp ==
    \/ SeparationSignal
    \/ SqiSignal
    \/ DiarizationSignal
    \/ EventsSignal

SpecDsp == InitDsp /\ [][NextDsp]_vars

(***************************************************************************)
(* Specification of repeated runs: `soundmind run` invoked again and again *)
(* under one jobs root, each time with a job id that has no workspace yet  *)
(* (cmd_run refuses an existing one) and at a later time.  The workspaces  *)
(* of the earlier runs stay where they are.                                *)
(***************************************************************************)
\* most earlier runs whose workspace is kept
MaxEarlier == 2

JobIds == {JobId(n) : n \in 1..(MaxEarlier + 1)}

\* silence; a click next to sound; a long run and a click; a long run and
\* two clicks
RepeatRecordings ==
    {Silence(3),
     <<-1000, -1000, -1000, 340, 0, 0>>,
     Tone(MinRun + 1) \o Silence(2) \o Click,
     Silence(1) \o Tone(MinRun) \o Silence(2) \o Click \o Silence(3) \o Click}

InitRepeat ==
    /\ ValidatorIdle
    /\ PipelineIdle
    /\ CliIdle
    /\ d_pc = "separation"
    /\ d_input \in RepeatRecordings
    /\ d_stems = [written |-> FALSE]
    /\ d_sqi = [written |-> FALSE]
    /\ d_diar = [written |-> FALSE]
    /\ d_events = [written |-> FALSE]
    /\ d_candidates = <<>>
    /\ d_run \in {[job_id |-> id, now |-> 1] : id \in JobIds}
    /\ d_earlier = <<>>
    /\ scan = [pc |-> "idle"]

\* the workspace of the run that has ended
Workspace ==
    [run |-> d_run, input |-> d_input, stems |-> d_stems, sqi |-> d_sqi,
     diar |-> d_diar, events |-> d_events]

\* cmd_run once more: a job id without a workspace, a fresh workspace with
\* a copy of the input, then run_pipeline
RunAgain ==
    /\ d_pc = "done"
    /\ Len(d_earlier) < MaxEarlier
    /\ d_earlier' = Append(d_earlier, Workspace)
    /\ \E id \in JobIds \ ({d_run.job_id} \cup {d_earlier[k].run.job_id : k \in DOMAIN d_earlier}) :
          d_run' = [job_id |-> id, now |-> d_run.now + 1]
    /\ d_input' \in RepeatRecordings
    /\ d_pc' = "separation"
    /\ d_stems' = [written |-> FALSE]
    /\ d_sqi' = [written |-> FALSE]
    /\ d_diar' = [written |-> FALSE]
    /\ d_events' = [written |-> FALSE]
    /\ d_candidates' = <<>>
    /\ UNCHANGED scan
    /\ UNCHANGED validator_vars
    /\ UNCHANGED pipeline_vars
    /\ UNCHANGED cli_vars

NextRepeat ==
    \/ SeparationSignal
    \/ SqiSignal
    \/ DiarizationSignal
    \/ EventsSignal
    \/ RunAgain

SpecRepeat == InitRepeat /\ [][NextRepeat]_vars

(***************************************************************************)
(* Specification of the impulse scan: one call of                          *)
(* _detect_impulses_non_speech_only(residual_samples, non_speech_mask, sr),*)
(* one iteration of its loop `while i < n_frames` at a time.  The rates    *)
(* keep the proportion of the canonical one: a frame is three hops long.   *)
(***************************************************************************)
\* most samples of a scanned residual
MaxScanLen == 14

\* rates with a hop of 1, 2 and 3 samples
ScanRates == {100, 200, 300}

\* a residual that is silent but for one sample
ClickAt(n, k) == Array([i \in 1..n |-> IF i = k THEN 340 ELSE 0])

\* residuals of n samples: silent, sound throughout, a click at the start,
\* in the middle or at the end
ScanResiduals(n) ==
    {Array(Silence(n)), Array(Burst(n))} \cup {ClickAt(n, k) : k \in {1, (n + 1) \div 2, n}}

\* masks of n samples: non-speech throughout, or speech in the first half
ScanMasks(n) ==
    {Array([i \in 1..n |-> 1]), Array([i \in 1..n |-> IF 2 * i <= n THEN 0 ELSE 1])}

InitScan ==
    /\ ValidatorIdle
    /\ PipelineIdle
    /\ CliIdle
    /\ d_pc = "idle"
    /\ d_input = <<>>
    /\ d_stems = [written |-> FALSE]
    /\ d_sqi = [written |-> FALSE]
    /\ d_diar = [written |-> FALSE]
    /\ d_events = [written |-> FALSE]
    /\ d_candidates = <<>>
    /\ d_run = [job_id |-> <<>>, now |-> 0]
    /\ d_earlier = <<>>
    /\ \E n \in 1..MaxScanLen, sr \in ScanRates :
          \E residual_samples \in ScanResiduals(n), non_speech_mask \in ScanMasks(n) :
              scan = [pc |-> "scan", sr |-> sr, residual_samples |-> residual_samples,
                      non_speech_mask |-> non_speech_mask, i |-> 0, frames |-> <<>>,
                      candidates |-> <<>>, events |-> <<>>]

\* the frame indices a, a + 1, ..., b - 1
FramesFromTo(a, b) == [k \in 1..(b - a) |-> a + k - 1]

\* one iteration of `while i < n_frames`: frame i is read; if it opens a
\* candidate, the inner loop reads the frames up to j - 1 and i becomes j
ScanIteration ==
    /\ scan.pc = "scan"
    /\ scan.i < n_frames(Len(scan.residual_samples), scan.sr, FRAME_MS, HOP_MS)
    /\ LET start_sample == FrameStart(scan.i, scan.sr)
           end_sample == FrameEnd(scan.i, scan.sr, Len(scan.residual_samples))
           global_peak == PeakAbs(scan.residual_samples)
           extent == ExtendImpulse(scan.residual_samples, scan.non_speech_mask, scan.sr,
                                   global_peak, start_sample, end_sample, scan.i + 1)
       IN  IF MaskMeanBelowHalf(Slice(scan.non_speech_mask, start_sample, end_sample))
           THEN scan' = [scan EXCEPT !.i = scan.i + 1, !.frames = Append(scan.frames, scan.i)]
           ELSE IF ExceedsThreshold(PeakAbs(Slice(scan.residual_samples, start_sample, end_sample)),
                                    global_peak)
           THEN scan' = [scan EXCEPT
                            !.i = extent[2],
                            !.frames = scan.frames \o FramesFromTo(scan.i, extent[2]),
                            !.candidates = Append(scan.candidates,
                                                  Candidate(scan.non_speech_mask, start_sample,
                                                            extent[1], scan.sr))]
           ELSE scan' = [scan EXCEPT !.i = scan.i + 1, !.frames = Append(scan.frames, scan.i)]
    /\ UNCHANGED <<d_pc, d_input, d_stems, d_sqi, d_diar, d_events, d_candidates, d_run, d_earlier>>
    /\ UNCHANGED validator_vars
    /\ UNCHANGED pipeline_vars
    /\ UNCHANGED cli_vars

\* the loop ends: events.sort and return
ScanReturn ==
    /\ scan.pc = "scan"
    /\ scan.i >= n_frames(Len(scan.residual_samples), scan.sr, FRAME_MS, HOP_MS)
    /\ scan' = [scan EXCEPT !.pc = "returned",
                            !.events = SortEvents(EventsOf(scan.candidates, scan.sr))]
    /\ UNCHANGED <<d_pc, d_input, d_stems, d_sqi, d_diar, d_events, d_candidates, d_run, d_earlier>>
    /\ UNCHANGED validator_vars
    /\ UNCHANGED pipeline_vars
    /\ UNCHANGED cli_vars

NextScan ==
    \/ ScanIteration
    \/ ScanReturn

SpecScan == InitScan /\ [][NextScan]_vars

(***************************************************************************)
(* Properties of the stage adapters (specification Spec)                   *)
(***************************************************************************)
ContractOf(stage) ==
    CASE stage = "ingest" -> CONTRACT_ingest
      [] stage = "separation" -> CONTRACT_separation
      [] stage = "sqi" -> CONTRACT_sqi
      [] stage = "diarization" -> CONTRACT_diarization
      [] stage = "events" -> CONTRACT_events
      [] stage = "rollup" -> CONTRACT_rollup

\* the roles of the artifacts a status record lists
RecordedRoles(status) == {status.artifacts[i].role : i \in DOMAIN status.artifacts}

\* C11: contract conformance. Whenever one of the five artifact-producing
\* stages has succeeded, the set of roles of the artifacts it emitted and
\* recorded in its status is exactly the produces set of its contract, no
\* more and no fewer roles, whatever the input.
C11_ProducesExactly ==
    \A i \in DOMAIN EXPECTED_STAGES :
        LET s == EXPECTED_STAGES[i]
        IN  (StatusExists(stage_status, s) /\ stage_status[s].success) =>
                RecordedRoles(stage_status[s]) = ContractOf(s).produces

\* the error code the input calls for: file missing, zero samples, or a
\* non-finite sample
InputErrorCode(w) ==
    IF ~w.exists THEN "INGEST_INPUT_MISSING"
    ELSE IF w.readable /\ w.num_samples = 0 THEN "INGEST_EMPTY_AUDIO"
    ELSE IF w.readable /\ ~w.finite THEN "INGEST_INVALID_AUDIO"
    ELSE "none"

\* C16: input errors are fatal at ingest. If the canonical input file is
\* missing, has zero samples or contains a non-finite sample, then ingest is
\* the only stage ever started; the status ingest writes has success=false
\* and one structured error with the matching code; ingest does not return
\* normally but raises StageFailure with that error; and the run ends with
\* ingest as the failed stage.
C16_InputErrorsFatal ==
    InputErrorCode(wav) # "none" =>
        /\ \A i \in DOMAIN started : started[i] = "ingest"
        /\ StatusExists(stage_status, "ingest") =>
              /\ ~stage_status["ingest"].success
              /\ stage_status["ingest"].artifacts = <<>>
              /\ Len(stage_status["ingest"].errors) = 1
              /\ stage_status["ingest"].errors[1].code = InputErrorCode(wav)
              /\ stage_status["ingest"].errors[1].stage = "ingest"
              /\ pc # "returned"
              /\ pc = "raise" => pending = StageFailure("ingest", stage_status["ingest"].errors)
              /\ pc # "raise" => signalled = <<"ingest">>
        /\ Terminated =>
              /\ pc = "done"
              /\ failed_stage = "ingest"
              /\ pipeline_errors = stage_status["ingest"].errors

\* a run on a recording with a non-finite sample has ended: ingest alone
\* was started and recorded INGEST_INVALID_AUDIO
C16_Witness ==
    /\ pc = "done"
    /\ wav.exists /\ wav.readable /\ wav.num_samples > 0 /\ ~wav.finite
    /\ started = <<"ingest">>
    /\ stage_status["ingest"].errors[1].code = "INGEST_INVALID_AUDIO"

(***************************************************************************)
(* Properties of rollup.run (specification SpecRollup)                     *)
(***************************************************************************)
\* the status record of stage s exists and carries success = true
HasTrueSuccess(dir, s) ==
    /\ StatusExists(dir, s)
    /\ "success" \in DOMAIN dir[s]
    /\ dir[s].success = TRUE

\* C12: the status record rollup writes has success=true exactly when each
\* of ingest, separation, sqi, diarization and events has a status record
\* and each of these records has success=true; a missing record, or a record
\* without a true success field, makes rollup's success false.
C12_RollupSuccessIff ==
    StatusExists(stage_status, "rollup") =>
        (stage_status["rollup"].success = TRUE
            <=> \A i \in DOMAIN EXPECTED_STAGES : HasTrueSuccess(stage_status, EXPECTED_STAGES[i]))

\* rollup recorded success=false although no status record is missing and
\* none reports a failure: one record has no success field
C12_Witness ==
    /\ StatusExists(stage_status, "rollup")
    /\ stage_status["rollup"].success = FALSE
    /\ \A i \in DOMAIN EXPECTED_STAGES : StatusExists(stage_status, EXPECTED_STAGES[i])
    /\ \E i \in DOMAIN EXPECTED_STAGES :
          /\ "success" \notin DOMAIN stage_status[EXPECTED_STAGES[i]]
          /\ \A j \in DOMAIN EXPECTED_STAGES :
                j # i => HasTrueSuccess(stage_status, EXPECTED_STAGES[j])

\* the artifact list recorded in the status of stage s, empty if there is
\* no record or the record has no list
RecordedArtifacts(dir, s) ==
    IF StatusExists(dir, s) /\ "artifacts" \in DOMAIN dir[s] THEN dir[s].artifacts ELSE <<>>

C14_RollupObserver ==
    [][(pc = "stage" /\ CurrentStage = "rollup") =>
        /\ pc' = "returned"
        /\ pending' = NoExc
        /\ exc' = NoExc
        /\ signalled' = signalled
        /\ StatusExists(stage_status', "rollup")
        /\ stage_status'["rollup"].stage = "rollup"
        /\ \A s \in StageNames \ {"rollup"} : stage_status'[s] = stage_status[s]
        /\ files' = files
        /\ job_status' = job_status]_vars

\* rollup returned normally after finding a missing record and a failed one
C14_Witness ==
    /\ pc = "returned"
    /\ CurrentStage = "rollup"
    /\ StatusExists(stage_status, "rollup")
    /\ ~stage_status["rollup"].success
    /\ ~StatusExists(stage_status, "sqi")
    /\ StatusExists(stage_status, "ingest")
    /\ "success" \in DOMAIN stage_status["ingest"]
    /\ ~stage_status["ingest"].success

(***************************************************************************)
(* Properties of workspace creation (specification SpecCli)                *)
(***************************************************************************)
\* the invocations whose mkdir of the job directory succeeded
Creators == {p \in Runs : Entry(".", p) \in fs_tree}

WrittenBy(p) == {e \in fs_tree : e.by = p}

Rejected(p) == cli_exit[p] \in {"WorkspaceExistsError", "FileExistsError"}

\* C15: workspace collisions are detected and rejected. If the workspace
\* exists before the invocations start, each invocation that has ended has
\* ended with the collision error and the workspace is as it was. However
\* the invocations interleave, at most one of them creates the job
\* directory; only that one writes into the workspace and reaches
\* run_pipeline; every other one that has ended was rejected with an error,
\* and has written nothing.
C15_CollisionRejected ==
    /\ PathExists(fs_before, ".") =>
          /\ fs_tree = fs_before
          /\ \A p \in Runs : cli_pc[p] = "exited" => cli_exit[p] = "WorkspaceExistsError"
    /\ Cardinality(Creators) <= 1
    /\ \A p \in Runs :
          /\ p \notin Creators => WrittenBy(p) = {}
          /\ cli_pc[p] \in {"mkmeta", "mkinput", "mkstages", "copy", "input_json", "run_json", "status", "pipeline"}
                => p \in Creators
          /\ cli_exit[p] \in {"returned 0", "returned 1"} => p \in Creators
          /\ (cli_pc[p] = "exited" /\ p \notin Creators) => Rejected(p)

\* two invocations both passed the existence check; one created the
\* workspace and ran the pipeline, the other failed at mkdir, wrote nothing
C15_Witness ==
    \E p \in Runs, q \in Runs :
        /\ cli_exit[p] = "returned 0"
        /\ cli_exit[q] = "FileExistsError"
        /\ WrittenBy(q) = {}
        /\ Entry("status.json", p) \in fs_tree

(***************************************************************************)
(* Properties of the signal path (specification SpecDsp)                   *)
(***************************************************************************)
IsSilence(samples) == \A i \in DOMAIN samples : samples[i] = 0

\* C17: for an all-zero input recording the SQI stage reports a
\* speech_ratio of 0.0: the recomputed energy mask classifies no sample as
\* speech.
C17_SilenceHasNoSpeechRatio ==
    (d_sqi.written /\ IsSilence(d_input)) => d_sqi.speech_ratio[1] = 0

HasSpeakerArtifact ==
    \E k \in DOMAIN d_diar.artifacts : d_diar.artifacts[k].role = RoleAudioDiarizedSpeaker

\* C18: for an all-zero input recording the four stages run to the end
\* with an empty event list and an empty speakers list, diarization writes
\* no per-speaker audio file and emits no audio/diarized_speaker artifact;
\* for every input the per-speaker file and its artifact are there iff at
\* least one diarization segment exists.
C18_SilenceGivesEmptyOutputs ==
    /\ (d_pc = "done" /\ IsSilence(d_input)) =>
          /\ d_events.events = <<>>
          /\ d_diar.speakers = <<>>
          /\ ~d_diar.speaker_wav.written
          /\ ~HasSpeakerArtifact
    /\ d_diar.written =>
          /\ HasSpeakerArtifact <=> d_diar.segments # <<>>
          /\ d_diar.speaker_wav.written <=> d_diar.segments # <<>>
          /\ d_diar.speakers # <<>> <=> d_diar.segments # <<>>

C18_Witness ==
    /\ d_pc = "done"
    /\ IsSilence(d_input)
    /\ Len(d_input) = MaxLen
    /\ d_events.events = <<>>
    /\ ~d_diar.speaker_wav.written

\* a speech sample of the quantized speech stem lies in [from, to)
HasSpeechSample(from, to) ==
    \E i \in (from + 1)..to : d_stems.speech[i] # 0

EmittedCandidates == SelectSeq(d_candidates, LAMBDA c : c.emitted)

\* C19: no emitted event's sample range contains a speech sample (a
\* non-zero sample of the quantized speech stem), so no event overlaps a
\* diarization segment; a candidate whose span contains a speech sample is
\* discarded, and every event spans a whole candidate, never a shortened one.
C19_EventsHoldNoSpeech ==
    d_events.written =>
        /\ \A k \in DOMAIN d_candidates :
              HasSpeechSample(d_candidates[k].from, d_candidates[k].to) => ~d_candidates[k].emitted
        /\ Len(d_events.events) = Len(EmittedCandidates)
        /\ \A k \in DOMAIN d_events.events :
              \E c \in DOMAIN EmittedCandidates :
                  /\ ~HasSpeechSample(EmittedCandidates[c].from, EmittedCandidates[c].to)
                  /\ d_events.events[k].start_s = RoundMicro(Quotient(EmittedCandidates[c].from, SampleRate))
                  /\ d_events.events[k].end_s = RoundMicro(Quotient(EmittedCandidates[c].to, SampleRate))
                  /\ \A g \in DOMAIN d_diar.segments :
                        \/ EmittedCandidates[c].to <= d_diar.segments[g].from
                        \/ d_diar.segments[g].to <= EmittedCandidates[c].from
        /\ \A k \in DOMAIN d_events.events :
              \A s \in DOMAIN d_diar.speakers : \A g \in DOMAIN d_diar.speakers[s].segments :
                  \/ d_events.events[k].end_s <= d_diar.speakers[s].segments[g].start_s
                  \/ d_diar.speakers[s].segments[g].end_s <= d_events.events[k].start_s

\* a candidate that holds a speech sample next to non-speech samples was
\* formed and dropped whole
C19_Witness ==
    /\ d_events.written
    /\ \E k \in DOMAIN d_candidates :
          /\ HasSpeechSample(d_candidates[k].from, d_candidates[k].to)
          /\ \E i \in (d_candidates[k].from + 1)..d_candidates[k].to :
                d_stems.speech[i] = 0 /\ d_stems.residual[i] # 0
          /\ ~d_candidates[k].emitted
    /\ d_events.events = <<>>

\* the maximal runs <<from, to>> of consecutive non-zero samples of a stem:
\* samples from .. to - 1 (0-based) are non-zero, the neighbours are zero
MaximalRuns(samples) ==
    LET starts == {i \in 0..(Len(samples) - 1) :
                      samples[i + 1] # 0 /\ (i = 0 \/ samples[i] = 0)}
        ends == {j \in 1..Len(samples) :
                      samples[j] # 0 /\ (j = Len(samples) \/ samples[j + 1] = 0)}
    IN  {<<i, CHOOSE j \in ends : j > i /\ \A m \in ends : m > i => j <= m>> : i \in starts}

\* a run of n samples lasts at least 0.20 s
AtLeastMinDuration(n) == 10 * n >= 2 * SampleRate

\* C20: the diarization output is exactly the list, in order of start, of
\* the maximal runs of consecutive non-zero samples of the speech stem that
\* last at least 0.20 s: sorted, pairwise non-overlapping, shorter runs
\* dropped, runs separated by zero samples never merged.
C20_SegmentsAreTheLongRuns ==
    d_diar.written =>
        /\ {<<d_diar.segments[k].from, d_diar.segments[k].to>> : k \in DOMAIN d_diar.segments}
              = {r \in MaximalRuns(d_stems.speech) : AtLeastMinDuration(r[2] - r[1])}
        /\ \A k \in 1..(Len(d_diar.segments) - 1) :
              d_diar.segments[k].to <= d_diar.segments[k + 1].from

(***************************************************************************)
(* C21: once separation has run, the mask and both stems are as long as    *)
(* the canonical input, the mask holds only 0 and 1, and at every sample   *)
(* the two float stems add up to the input sample: where the mask is 1 the *)
(* sample is in the speech stem and the residual is 0, where it is 0 the   *)
(* sample is in the residual and the speech stem is 0, also as written.    *)
(***************************************************************************)
C21_SeparationConserves ==
    d_stems.written =>
        /\ Len(d_stems.mask) = Len(d_input)
        /\ Len(d_stems.speech_float) = Len(d_input)
        /\ Len(d_stems.residual_float) = Len(d_input)
        /\ Len(d_stems.speech) = Len(d_input)
        /\ Len(d_stems.residual) = Len(d_input)
        /\ \A i \in 1..Len(d_input) :
              /\ d_stems.mask[i] \in {0, 1}
              /\ d_stems.speech_float[i] + d_stems.residual_float[i] = d_input[i]
              /\ d_stems.mask[i] = 1 =>
                    /\ d_stems.speech_float[i] = d_input[i]
                    /\ d_stems.residual_float[i] = 0
              /\ d_stems.mask[i] = 0 =>
                    /\ d_stems.speech_float[i] = 0
                    /\ d_stems.residual_float[i] = d_input[i]
                    /\ d_stems.speech[i] = 0

\* a recording split between the stems: sound under the mask and sound
\* outside it
C21_Witness ==
    /\ d_stems.written
    /\ \E i, j \in 1..Len(d_input) :
          /\ d_stems.mask[i] = 1 /\ d_input[i] # 0 /\ d_stems.speech_float[i] = d_input[i]
          /\ d_stems.mask[j] = 0 /\ d_input[j] # 0 /\ d_stems.residual_float[j] = d_input[j]

(***************************************************************************)
(* Properties of repeated runs (specification SpecRepeat)                  *)
(***************************************************************************)
\* sqi.json: the seven metrics
SqiJson(sqi) ==
    [duration_sec |-> sqi.duration_sec, num_samples |-> sqi.num_samples,
     peak_abs |-> sqi.peak_abs, rms |-> sqi.rms, sample_rate_hz |-> sqi.sample_rate_hz,
     speech_ratio |-> sqi.speech_ratio, zero_crossing_rate |-> sqi.zero_crossing_rate]

\* diarization.json
DiarizationJson(diar) == [sample_rate |-> diar.sample_rate, speakers |-> diar.speakers]

\* the output artifacts of a finished run
OutputArtifacts(w) ==
    [speech |-> w.stems.speech, residual |-> w.stems.residual, sqi |-> SqiJson(w.sqi),
     diarization |-> DiarizationJson(w.diar), speaker_wav |-> w.diar.speaker_wav,
     events |-> w.events.events]

RECURSIVE ConcatenatedRanges(_, _)
\* the samples in [floor(start * sr), floor(end * sr)) of each segment, one
\* range after the other in the order of the segments
ConcatenatedRanges(samples, segments) ==
    IF segments = <<>>
    THEN <<>>
    ELSE SubSeq(samples, Floor(Product(Head(segments).start, SampleRate)) + 1,
                Floor(Product(Head(segments).end, SampleRate)))
         \o ConcatenatedRanges(samples, Tail(segments))

RECURSIVE RangeLengths(_)
RangeLengths(segments) ==
    IF segments = <<>>
    THEN 0
    ELSE Floor(Product(Head(segments).end, SampleRate))
         - Floor(Product(Head(segments).start, SampleRate))
         + RangeLengths(Tail(segments))

\* the ranges are taken in order, with no sample between or around them
RangesInOrder ==
    (d_diar.written /\ d_diar.segments # <<>>) =>
        /\ d_diar.speaker_wav.written
        /\ Len(d_diar.speaker_wav.samples) = RangeLengths(d_diar.segments)
        /\ Len(d_diar.speaker_wav.samples) > 0
        /\ \A k \in DOMAIN d_diar.segments :
              /\ 0 <= Floor(Product(d_diar.segments[k].start, SampleRate))
              /\ Floor(Product(d_diar.segments[k].start, SampleRate))
                   < Floor(Product(d_diar.segments[k].end, SampleRate))
              /\ Floor(Product(d_diar.segments[k].end, SampleRate)) <= Len(d_stems.speech)
              /\ k > 1 => Floor(Product(d_diar.segments[k - 1].end, SampleRate))
                            <= Floor(Product(d_diar.segments[k].start, SampleRate))

SortKeyLeq(a, b) ==
    \/ a.start_s < b.start_s
    \/ a.start_s = b.start_s /\ a.end_s < b.end_s
    \/ a.start_s = b.start_s /\ a.end_s = b.end_s /\ a.type = b.type

(***************************************************************************)
(* C24: the events of events.json are in non-decreasing order of           *)
(* (start_s, end_s, type); each has type impulsive_sound and confidence    *)
(* 1.0, and its times satisfy end_s > start_s >= 0.                        *)
(***************************************************************************)
C24_EventsSortedAndWellFormed ==
    d_events.written =>
        /\ \A k \in DOMAIN d_events.events :
              /\ d_events.events[k].type = "impulsive_sound"
              /\ d_events.events[k].confidence = "1.0"
              /\ d_events.events[k].start_s >= 0
              /\ d_events.events[k].end_s > d_events.events[k].start_s
        /\ \A k, l \in DOMAIN d_events.events :
              k < l => SortKeyLeq(d_events.events[k], d_events.events[l])

\* an event list with two events at different times
C24_Witness ==
    /\ d_events.written
    /\ Len(d_events.events) >= 2
    /\ d_events.events[1].start_s < d_events.events[2].start_s

\* diarization took sample i (1-based) of speech.wav for speech: it lies in
\* one of the regions find_speech_regions returned
InRegion(i) == \E k \in DOMAIN d_diar.regions : d_diar.regions[k].from < i /\ i <= d_diar.regions[k].to

(***************************************************************************)
(* C25: a sample of speech.wav is non-speech in the mask of the events     *)
(* stage exactly when diarization takes it for silence, i.e. leaves it out *)
(* of every region; and a sample the energy mask of separation marks as    *)
(* non-speech is 0 in speech.wav, hence non-speech for both stages.        *)
(***************************************************************************)
C25_StagesAgreeOnSpeech ==
    /\ d_diar.written =>
          \A i \in 1..Len(d_stems.speech) :
              /\ InRegion(i) <=> d_stems.speech[i] # 0
              /\ d_stems.mask[i] = 0 => ~InRegion(i)
    /\ d_events.written =>
          /\ Len(d_events.non_speech_mask) = Len(d_stems.speech)
          /\ \A i \in 1..Len(d_stems.speech) :
                /\ d_events.non_speech_mask[i] = 1 <=> ~InRegion(i)
                /\ d_events.non_speech_mask[i] = 0 <=> InRegion(i)
                /\ d_stems.mask[i] = 0 =>
                      /\ d_stems.speech[i] = 0
                      /\ d_events.non_speech_mask[i] = 1

\* both stages have run on a stem with speech and non-speech samples, one
\* of them a sound that separation kept out of the stem, and a region too
\* short to become a segment
C25_Witness ==
    /\ d_events.written
    /\ \E i, j \in 1..Len(d_stems.speech) :
          /\ InRegion(i) /\ d_events.non_speech_mask[i] = 0
          /\ ~InRegion(j) /\ d_events.non_speech_mask[j] = 1
          /\ d_stems.mask[j] = 0 /\ d_input[j] # 0
    /\ Len(d_diar.regions) > Len(d_diar.segments)

\* the largest |code| among the samples (from, to] of the residual stem
ResidualPeak(from, to) ==
    CHOOSE p \in {Abs(d_stems.residual[i]) : i \in (from + 1)..to} :
        \A i \in (from + 1)..to : Abs(d_stems.residual[i]) <= p

\* the frame of 30 ms that starts at sample from (0-based) ends here
FirstFrameEnd(from) == Min2(from + (SampleRate * 30) \div 1000, Len(d_stems.residual))

(***************************************************************************)
(* C26: every event spans at most 100 ms, in samples and in the written    *)
(* times; the candidate it comes from starts at a frame of which at least  *)
(* half is non-speech and whose peak exceeds both 0.6 of the peak of the   *)
(* whole residual and 0.01; and no event is written when the peak of the   *)
(* residual does not exceed 0.01.                                          *)
(***************************************************************************)
C26_EventsAreShortAndLoud ==
    d_events.written =>
        /\ \A k \in DOMAIN d_candidates :
              d_candidates[k].emitted =>
                  LET from == d_candidates[k].from
                      to == d_candidates[k].to
                      mask == d_events.non_speech_mask
                      peak == ResidualPeak(from, FirstFrameEnd(from))
                      global_peak == ResidualPeak(0, Len(d_stems.residual))
                  IN  /\ 10 * (to - from) <= SampleRate
                      /\ FirstFrameEnd(from) <= to
                      /\ 2 * Cardinality({i \in (from + 1)..FirstFrameEnd(from) : mask[i] = 1})
                           >= FirstFrameEnd(from) - from
                      /\ 10 * peak > 6 * global_peak
                      /\ 100 * peak > 32768
        /\ \A k \in DOMAIN d_events.events :
              d_events.events[k].end_s - d_events.events[k].start_s <= 100000
        /\ 100 * ResidualPeak(0, Len(d_stems.residual)) <= 32768 => d_events.events = <<>>
        /\ Len(d_events.events) = Cardinality({k \in DOMAIN d_candidates : d_candidates[k].emitted})

\* an event of exactly 100 ms cut out of a longer stretch of sound
C26_Witness ==
    /\ d_events.written
    /\ \E k \in DOMAIN d_candidates :
          /\ d_candidates[k].emitted
          /\ 10 * (d_candidates[k].to - d_candidates[k].from + 1) > SampleRate
          /\ d_candidates[k].to < Len(d_stems.residual)
          /\ 100 * Abs(d_stems.residual[d_candidates[k].to + 1]) > 32768
    /\ \E e \in {d_events.events[k] : k \in DOMAIN d_events.events} : e.end_s - e.start_s = 100000

\* a residual with sound in it, none of it above 0.01
C26_WitnessFaint ==
    /\ d_events.written
    /\ ResidualPeak(0, Len(d_stems.residual)) > 0
    /\ 100 * ResidualPeak(0, Len(d_stems.residual)) <= 32768
    /\ d_events.events = <<>>

\* the candidates that became events, in scan order
RECURSIVE EmittedOf(_)
EmittedOf(candidates) ==
    IF candidates = <<>> THEN <<>>
    ELSE IF Head(candidates).emitted
    THEN <<Head(candidates)>> \o EmittedOf(Tail(candidates))
    ELSE EmittedOf(Tail(candidates))

\* the start samples of the emitted candidates increase strictly in scan
\* order
EventStartsIncrease ==
    d_events.written =>
        \A k \in 1..(Len(EmittedOf(d_candidates)) - 1) :
            EmittedOf(d_candidates)[k].from < EmittedOf(d_candidates)[k + 1].from

(***************************************************************************)
(* C28: the events of one run do not overlap: of two consecutive emitted   *)
(* candidates the earlier one ends at or before the sample where the later *)
(* one starts, and so do the written times.                                *)
(***************************************************************************)
C28_EventsDoNotOverlap ==
    d_events.written =>
        /\ \A k \in 1..(Len(EmittedOf(d_candidates)) - 1) :
              /\ EmittedOf(d_candidates)[k].from < EmittedOf(d_candidates)[k + 1].from
              /\ EmittedOf(d_candidates)[k].to <= EmittedOf(d_candidates)[k + 1].from
        /\ \A k \in 1..(Len(d_events.events) - 1) :
              d_events.events[k].end_s <= d_events.events[k + 1].start_s

(***************************************************************************)
(* Properties of the impulse scan (specification SpecScan)                 *)
(***************************************************************************)
\* the sample indices (0-based) inside the frames the scan has read
ScanCovered ==
    UNION {FrameStart(scan.frames[k], scan.sr)
               ..(FrameEnd(scan.frames[k], scan.sr, Len(scan.residual_samples)) - 1) :
           k \in DOMAIN scan.frames}

\* the scan reads the frames 0, 1, ..., n_frames - 1, each once and in order
ScanReadsEveryFrame ==
    scan.pc = "returned" =>
        scan.frames = FramesFromTo(0, n_frames(Len(scan.residual_samples), scan.sr, FRAME_MS, HOP_MS))

\* every iteration increases the frame index, which never passes n_frames
ScanIndexIncreases ==
    [][scan.pc = "scan" /\ scan'.pc = "scan" =>
           /\ scan'.i > scan.i
           /\ scan'.i <= n_frames(Len(scan.residual_samples), scan.sr, FRAME_MS, HOP_MS)]_vars

\* iteration by iteration the loop forms the candidates of ScanImpulses
ScanFormsTheCandidates ==
    scan.pc = "returned" =>
        scan.candidates = detect_impulses_non_speech_only(scan.residual_samples,
                                                          scan.non_speech_mask, scan.sr)

(***************************************************************************)
(* C29: when the scan has returned, every sample index of the residual,    *)
(* 0 <= k < N, lies inside one of the frames the loop has read.            *)
(***************************************************************************)
C29_ScanCoversResidual ==
    scan.pc = "returned" =>
        \A k \in 0..(Len(scan.residual_samples) - 1) : k \in ScanCovered

(***************************************************************************)
(* Properties of rollup under run_pipeline (specification Spec)            *)
(***************************************************************************)
\* rollup.run has been entered, or has written its status
RollupExecutes ==
    \/ pc = "stage" /\ CurrentStage = "rollup"
    \/ StatusExists(stage_status, "rollup")

(***************************************************************************)
(* C27: when rollup executes under run_pipeline, each of the five earlier  *)
(* stages has been called, has left run(ctx) and has written a status with *)
(* success = true; the success rollup records is true; the job status,     *)
(* once written, carries the same success as rollup's, and never           *)
(* success = true unless rollup recorded success = true.                   *)
(***************************************************************************)
C27_RollupSeesAllSucceeded ==
    /\ RollupExecutes =>
          \A i \in DOMAIN EXPECTED_STAGES :
              /\ \E k \in DOMAIN started : started[k] = EXPECTED_STAGES[i]
              /\ EXPECTED_STAGES[i] \notin running
              /\ StatusExists(stage_status, EXPECTED_STAGES[i])
              /\ stage_status[EXPECTED_STAGES[i]].success = TRUE
    /\ StatusExists(stage_status, "rollup") => stage_status["rollup"].success = TRUE
    /\ pc = "done" /\ StatusExists(stage_status, "rollup") =>
          job_status.success = stage_status["rollup"].success
    /\ pc = "done" /\ job_status.success =>
          StatusExists(stage_status, "rollup") /\ stage_status["rollup"].success = TRUE

\* run_pipeline has returned after rollup ran
C27_Witness ==
    /\ pc = "done"
    /\ started[Len(started)] = "rollup"
    /\ StatusExists(stage_status, "rollup")
    /\ stage_status["rollup"].success = TRUE
    /\ job_status.success
    /\ result = ReturnedValue(TRUE)

(***************************************************************************)
(* Properties of the contracts along STAGE_ORDER (specification Spec)      *)
(***************************************************************************)
\* the roles the contracts of the stages before position i produce
ProducedBefore(i) == UNION {ContractOf(STAGE_ORDER[j]).produces : j \in 1..(i - 1)}

\* the roles of the artifacts the stages before position i have recorded
EmittedBefore(i) ==
    UNION {RecordedRoles(stage_status[STAGE_ORDER[j]]) :
              j \in {k \in 1..(i - 1) : StatusExists(stage_status, STAGE_ORDER[k])}}

(***************************************************************************)
(* C30: along STAGE_ORDER every role a contract requires is produced by    *)
(* the contract of an earlier stage, and no role is produced by two        *)
(* contracts; while a stage runs, and when the job has ended with success, *)
(* the artifacts the earlier stages recorded hold every role the stage     *)
(* requires, also when the input has no speech segment.                    *)
(***************************************************************************)
C30_ContractsFormChain ==
    /\ \A i \in DOMAIN STAGE_ORDER : ContractOf(STAGE_ORDER[i]).requires \subseteq ProducedBefore(i)
    /\ \A i, j \in DOMAIN STAGE_ORDER :
          i # j => ContractOf(STAGE_ORDER[i]).produces \cap ContractOf(STAGE_ORDER[j]).produces = {}
    /\ \A i \in DOMAIN STAGE_ORDER :
          STAGE_ORDER[i] \in running => ContractOf(STAGE_ORDER[i]).requires \subseteq EmittedBefore(i)
    /\ pc = "done" /\ job_status.success =>
          \A i \in DOMAIN STAGE_ORDER : ContractOf(STAGE_ORDER[i]).requires \subseteq EmittedBefore(i)

\* a job that succeeded on an input without a speech segment
C30_Witness ==
    /\ pc = "done"
    /\ job_status.success
    /\ wav.segments = 0
    /\ started = STAGE_ORDER
    /\ RoleAudioDiarizedSpeaker \notin EmittedBefore(Len(STAGE_ORDER))
    /\ ContractOf("rollup").requires = EmittedBefore(Len(STAGE_ORDER))

====
